---- MODULE Spec2Model ----
(***************************************************************************)
(* A model of the plan-based spectral Poisson/Helmholtz solver of          *)
(* algo-pde (package poisson, with the grid and r2r helpers it uses).      *)
(*                                                                         *)
(* Numbers.  float64 values are modelled as exact rationals <<num, den>>   *)
(* and complex128 values as pairs <<re, im>> of rationals, so rounding is  *)
(* not modelled.  A grid spacing h is modelled by its reciprocal k = 1/h   *)
(* (a positive integer), so 1/h is k and 1/(h*h) is k*k.  The backing FFT  *)
(* is the DFT of its definition; it is exact for the lengths 1, 2 and 4,   *)
(* which limits the axis lengths the solver is run on to Periodic 1, 2, 4  *)
(* (FFT of the same length), Dirichlet 1 (DST-I through an FFT of length   *)
(* 4) and Neumann 1 (DCT-II through an FFT of length 2).  The boundary     *)
(* patches and the line geometry have no such limit.                       *)
(***************************************************************************)
EXTENDS Integers, Sequences, FiniteSets, TLC

VARIABLES plan, workC, workR, scratch, bufs, call, hist, calls, heap

vars == <<plan, workC, workR, scratch, bufs, call, hist, calls, heap>>

----------------------------------------------------------------------------
(* Exact arithmetic standing for float64 / complex128 arithmetic. *)

Abs(x) == IF x < 0 THEN -x ELSE x

RECURSIVE Gcd(_, _)
Gcd(a, b) == IF b = 0 THEN a ELSE Gcd(b, a % b)

Norm(n, d) ==
  LET g == Gcd(Abs(n), Abs(d))
      s == IF d < 0 THEN -1 ELSE 1
  IN  <<(s * n) \div g, (s * d) \div g>>

R(n) == <<n, 1>>
RZero == <<0, 1>>
RAdd(x, y) == IF x[2] = 1 /\ y[2] = 1 THEN <<x[1] + y[1], 1>>
              ELSE Norm(x[1] * y[2] + y[1] * x[2], x[2] * y[2])
RNeg(x) == <<-x[1], x[2]>>
RSub(x, y) == RAdd(x, RNeg(y))
RMul(x, y) == IF x[2] = 1 /\ y[2] = 1 THEN <<x[1] * y[1], 1>>
              ELSE Norm(x[1] * y[1], x[2] * y[2])
RDiv(x, y) == Norm(x[1] * y[2], x[2] * y[1])
RAbs(x) == <<Abs(x[1]), x[2]>>
RLe(x, y) == x[1] * y[2] <= y[1] * x[2]
RLt(x, y) == x[1] * y[2] < y[1] * x[2]

Cx(re, im) == <<re, im>>
CZero == <<RZero, RZero>>
Re(z) == z[1]
Im(z) == z[2]
CAdd(z, w) == <<RAdd(z[1], w[1]), RAdd(z[2], w[2])>>
CScale(z, r) == <<RMul(z[1], r), RMul(z[2], r)>>
CDivReal(z, r) == <<RDiv(z[1], r), RDiv(z[2], r)>>

(* z times (-i)^j, j in 0..3: the four twiddle factors of an FFT whose *)
(* length divides 4.                                                   *)
CMulUnit(z, j) ==
  CASE j = 0 -> z
    [] j = 1 -> <<z[2], RNeg(z[1])>>
    [] j = 2 -> <<RNeg(z[1]), RNeg(z[2])>>
    [] OTHER -> <<RNeg(z[2]), z[1]>>

RECURSIVE CSumSeq(_, _)
CSumSeq(s, n) == IF n = 0 THEN CZero ELSE CAdd(CSumSeq(s, n - 1), s[n])

RECURSIVE RSumSeq(_, _)
RSumSeq(s, n) == IF n = 0 THEN RZero ELSE RAdd(RSumSeq(s, n - 1), s[n])

----------------------------------------------------------------------------
(* The backing complex FFT (algo-fft), by its contract: forward is the    *)
(* unnormalised DFT, inverse the conjugate DFT divided by the length.     *)

FFTLengths == {1, 2, 4}

FFTForward(x) ==
  LET n == Len(x)
      q == 4 \div n
      Terms(k) == [j \in 1..n |-> CMulUnit(x[j], (q * (j - 1) * (k - 1)) % 4)]
  IN  [k \in 1..n |-> CSumSeq(Terms(k), n)]

FFTInverse(x) ==
  LET n == Len(x)
      q == 4 \div n
      Terms(k) == [j \in 1..n |->
                     CMulUnit(x[j], (4 - ((q * (j - 1) * (k - 1)) % 4)) % 4)]
  IN  [k \in 1..n |-> CDivReal(CSumSeq(Terms(k), n), R(n))]

----------------------------------------------------------------------------
(* r2r: DST-I (Dirichlet) and DCT-II (Neumann) on one real line. *)

(* DSTPlan.Forward: odd extension of length 2(N+1), FFT, -Im/2. *)
DSTForward(src) ==
  LET n == Len(src)
      extendedN == 2 * (n + 1)
      fftIn == [j \in 1..extendedN |->
                  IF 1 <= j - 1 /\ j - 1 <= n THEN Cx(src[j - 1], RZero)
                  ELSE IF j - 1 >= extendedN - n
                       THEN Cx(RNeg(src[extendedN - (j - 1)]), RZero)
                       ELSE CZero]
      fftOut == FFTForward(fftIn)
  IN  [k \in 1..n |-> RDiv(RNeg(Im(fftOut[k + 1])), R(2))]

(* DSTPlan.Inverse: Forward, then every element times 2/(N+1). *)
DSTInverse(src) ==
  LET n == Len(src)
      f == DSTForward(src)
  IN  [i \in 1..n |-> RMul(f[i], Norm(2, n + 1))]

(* DCT2Plan phase[k] = exp(-i*pi*k/(2N)); rational only for k = 0. *)
DCT2Phase(k, n) == CASE k = 0 -> Cx(R(1), RZero)

CMul(z, w) == <<RSub(RMul(z[1], w[1]), RMul(z[2], w[2])),
                RAdd(RMul(z[1], w[2]), RMul(z[2], w[1]))>>

(* DCT2Plan.Forward: even extension of length 2N, FFT, Re(out*phase)/2. *)
DCT2Forward(src) ==
  LET n == Len(src)
      extendedN == 2 * n
      fftIn == [j \in 1..extendedN |->
                  IF j <= n THEN Cx(src[j], RZero)
                  ELSE Cx(src[extendedN - (j - 1)], RZero)]
      fftOut == FFTForward(fftIn)
  IN  [k \in 1..n |->
         RDiv(Re(CMul(fftOut[k], DCT2Phase(k - 1, n))), R(2))]

(* DCT2Coefficient(n, k, size) = cos(pi*(n+1/2)*k/size); rational only *)
(* for k = 0.                                                          *)
DCT2Coefficient(n, k, size) == CASE k = 0 -> R(1)

(* DCT2Plan.Inverse: weighted transpose of the DCT-II kernel. *)
DCT2Inverse(src) ==
  LET n == Len(src)
      weight(k) == IF k = 0 THEN Norm(1, n) ELSE Norm(2, n)
      terms(i) == [k \in 1..n |->
                     RMul(RMul(src[k], weight(k - 1)),
                          DCT2Coefficient(i - 1, k - 1, n))]
  IN  [i \in 1..n |-> RSumSeq(terms(i), n)]

----------------------------------------------------------------------------
(* Boundary-condition kinds and the eigenvalue tables. *)

Periodic == "Periodic"
Dirichlet == "Dirichlet"
Neumann == "Neumann"
BCTypes == {Periodic, Dirichlet, Neumann}

HasNullspace(bc) == bc = Periodic \/ bc = Neumann

(* 2*cos(2*pi*j/12), for the j where it is rational. *)
TwoCosTwelfth(j) ==
  CASE j % 12 = 0 -> 2
    [] j % 12 \in {2, 10} -> 1
    [] j % 12 \in {3, 9} -> 0
    [] j % 12 \in {4, 8} -> -1
    [] j % 12 = 6 -> -2

(* eig[m] = (2 - 2cos(2*pi*m/n)) / h^2, m = 0..n-1, with 1/h = k. *)
eigenvaluesPeriodic(n, k) ==
  [i \in 1..n |-> R((2 - TwoCosTwelfth((12 * (i - 1)) \div n)) * k * k)]

(* eig[m-1] = (2 - 2cos(pi*m/(n+1))) / h^2, m = 1..n. *)
eigenvaluesDirichlet(n, k) ==
  [i \in 1..n |-> R((2 - TwoCosTwelfth((6 * i) \div (n + 1))) * k * k)]

(* eig[m] = (2 - 2cos(pi*m/n)) / h^2, m = 0..n-1. *)
eigenvaluesNeumann(n, k) ==
  [i \in 1..n |-> R((2 - TwoCosTwelfth((6 * (i - 1)) \div n)) * k * k)]

----------------------------------------------------------------------------
(* grid: shapes <<nx, ny, nz>>, row-major strides, lines along an axis.   *)
(* Axes and linear indices are 0-based as in the source; sequences are    *)
(* 1-based, so element idx of a buffer is buf[idx + 1].                   *)

ShapeDim(s) == IF s[3] > 1 THEN 3 ELSE IF s[2] > 1 THEN 2 ELSE 1
ShapeSize(s) == s[1] * s[2] * s[3]
ShapeN(s, axis) == s[axis + 1]
RowMajorStride(s) == <<s[2] * s[3], s[3], 1>>

otherAxes(axis) ==
  CASE axis = 0 -> <<1, 2>>
    [] axis = 1 -> <<0, 2>>
    [] OTHER -> <<0, 1>>

lineCount(shape, axis) ==
  shape[otherAxes(axis)[1] + 1] * shape[otherAxes(axis)[2] + 1]

lineStartIndex(shape, axis, line) ==
  LET other0 == otherAxes(axis)[1]
      other1 == otherAxes(axis)[2]
      max0 == shape[other0 + 1]
      stride == RowMajorStride(shape)
  IN  IF max0 <= 0 THEN 0
      ELSE (line % max0) * stride[other0 + 1]
           + (line \div max0) * stride[other1 + 1]

----------------------------------------------------------------------------
(* Errors and options. *)

OK == "ok"
ErrNilBuffer == "ErrNilBuffer"
ErrSizeMismatch == "ErrSizeMismatch"
ErrNullspace == "ErrNullspace"
ErrNonZeroMean == "ErrNonZeroMean"
ErrResonant == "ErrResonant"
ValidationError == "ValidationError"
SizeError == "SizeError"

NullspaceZeroMode == "ZeroMode"
NullspaceSubtractMean == "SubtractMean"
NullspaceError == "Error"

(* SolutionMean is a pointer: <<>> is nil, <<m>> points at m. *)
NoMean == <<>>

(* A variant of effectiveWorkers in which only a request of 0 becomes  *)
(* GOMAXPROCS(0).                                                       *)
effectiveWorkersZeroOnly(workers, gomaxprocs) ==
  LET w == IF workers = 0 THEN gomaxprocs ELSE workers
  IN  IF w < 1 THEN 1 ELSE w

(* effectiveWorkers: a request <= 0 becomes GOMAXPROCS(0), here gomaxprocs. *)
effectiveWorkers(workers, gomaxprocs) ==
  LET w == IF workers <= 0 THEN gomaxprocs ELSE workers
  IN  IF w < 1 THEN 1 ELSE w

(* A variant of clampWorkers that takes one worker per task, however *)
(* many workers the plan was built for.                               *)
clampWorkersPerTask(workers, tasks) ==
  IF tasks < 1 THEN 1 ELSE tasks

clampWorkers(workers, tasks) ==
  IF tasks < 1 THEN 1
  ELSE LET w == IF workers < 1 THEN 1 ELSE workers
       IN  IF w > tasks THEN tasks ELSE w

----------------------------------------------------------------------------
(* parallelFor(workers, tasks, fn): which workers are dispatched, and the *)
(* half-open range [start, end) each one is given.                        *)

parallelInline(workers, tasks) == workers <= 1 \/ tasks = 1

(* A variant of the chunk size that rounds down. *)
parallelChunkFloor(workers, tasks) == tasks \div workers

parallelChunk(workers, tasks) == (tasks + workers - 1) \div workers

parallelWorkers(workers, tasks) ==
  IF tasks <= 0 THEN {}
  ELSE IF parallelInline(workers, tasks) THEN {0}
  ELSE {w \in 0..(workers - 1) : w * parallelChunk(workers, tasks) < tasks}

parallelStart(workers, tasks, w) ==
  IF parallelInline(workers, tasks) THEN 0
  ELSE w * parallelChunk(workers, tasks)

parallelEnd(workers, tasks, w) ==
  IF parallelInline(workers, tasks) THEN tasks
  ELSE LET e == w * parallelChunk(workers, tasks)
                + parallelChunk(workers, tasks)
       IN  IF e > tasks THEN tasks ELSE e

----------------------------------------------------------------------------
(* The plan. n, invh and bc are padded to three axes as in the source     *)
(* (n = 1, h = 1, Periodic); eig[axis] is empty for an unused axis.       *)

planShape(p) == p.n

planSize(p) ==
  LET f(axis) == IF axis < p.dim THEN p.n[axis + 1] ELSE 1
  IN  f(0) * f(1) * f(2)

(* A variant of hasNullspace that forgets alpha. *)
hasNullspaceIgnoringAlpha(p) ==
  \A axis \in 0..(p.dim - 1) : HasNullspace(p.bc[axis + 1])

hasNullspace(p) ==
  IF p.alpha # 0 THEN FALSE
  ELSE \A axis \in 0..(p.dim - 1) : HasNullspace(p.bc[axis + 1])

eigTable(bc, n, k) ==
  CASE bc = Periodic -> eigenvaluesPeriodic(n, k)
    [] bc = Dirichlet -> eigenvaluesDirichlet(n, k)
    [] bc = Neumann -> eigenvaluesNeumann(n, k)

(* newPlanWithAlpha on valid arguments: sizes n, reciprocal spacings k,  *)
(* kinds bc (each of length dim), alpha, and the options after           *)
(* ApplyOptions.                                                         *)
newPlanWithAlpha(dim, n, k, bc, alpha, options, gomaxprocs) ==
  LET pad(s, d) == [a \in 1..3 |-> IF a <= dim THEN s[a] ELSE d]
  IN  [dim |-> dim,
       n |-> pad(n, 1),
       invh |-> pad(k, 1),
       bc |-> pad(bc, Periodic),
       eig |-> [a \in 1..3 |-> IF a <= dim THEN eigTable(bc[a], n[a], k[a])
                               ELSE <<>>],
       alpha |-> alpha,
       opts |-> [options EXCEPT
                   !.Workers = effectiveWorkers(options.Workers, gomaxprocs)]]

(* A variant of NewWorkspaceReal with realSize = 0 on every plan. *)
NewWorkspaceRealEmpty(p) == <<>>

(* NewWorkspace(realSize, size): zeroed buffers. *)
NewWorkspaceComplex(p) == [i \in 1..planSize(p) |-> CZero]
NewWorkspaceReal(p) ==
  IF p.opts.InPlace THEN <<>> ELSE [i \in 1..planSize(p) |-> RZero]

----------------------------------------------------------------------------
(* Solve, before the transforms: validation, nullspace gate, mean, lift. *)

meanOf(values) ==
  IF Len(values) = 0 THEN RZero
  ELSE RDiv(RSumSeq(values, Len(values)), R(Len(values)))

RECURSIVE maxAbsOf(_, _)
maxAbsOf(values, n) ==
  IF n = 0 THEN RZero
  ELSE LET m == maxAbsOf(values, n - 1)
           a == RAbs(values[n])
       IN  IF RLt(m, a) THEN a ELSE m

(* meanTol = 1e-12 = 1 / (MeanTolRoot * MeanTolRoot). *)
MeanTolRoot == 1000000

(* |mean| <= meanTol * (1 + maxAbs), in integers: with mean = a/b and   *)
(* maxAbs = c/d it is |a|*d*10^12 <= b*(d + c), and X*10^12 <= Y is     *)
(* X <= floor(floor(Y / 10^6) / 10^6) for integers X, Y >= 0.           *)
meanWithinTolerance(mean, maxAbs) ==
  Abs(mean[1]) * maxAbs[2]
    <= ((mean[2] * (maxAbs[2] + maxAbs[1])) \div MeanTolRoot) \div MeanTolRoot

(* A variant of solveGate that asks the nullspace policy before it     *)
(* looks at the buffers.                                                *)
solveGateNullspaceFirst(p, dstNil, rhsNil, dstLen, rhs) ==
  IF (p.alpha = 0 /\ \A axis \in 0..(p.dim - 1) : HasNullspace(p.bc[axis + 1]))
     /\ p.opts.Nullspace = NullspaceError
  THEN ErrNullspace
  ELSE IF dstNil \/ rhsNil THEN ErrNilBuffer
  ELSE IF dstLen # planSize(p) \/ Len(rhs) # planSize(p) THEN ErrSizeMismatch
  ELSE IF (p.alpha = 0 /\ \A axis \in 0..(p.dim - 1) : HasNullspace(p.bc[axis + 1]))
          /\ p.opts.Nullspace = NullspaceZeroMode
          /\ ~meanWithinTolerance(meanOf(rhs), maxAbsOf(rhs, Len(rhs)))
       THEN ErrNonZeroMean
  ELSE OK

(* A variant of solveGate that never compares the mean with the        *)
(* tolerance.                                                          *)
solveGateNoMeanCheck(p, dstNil, rhsNil, dstLen, rhs) ==
  IF dstNil \/ rhsNil THEN ErrNilBuffer
  ELSE IF dstLen # planSize(p) \/ Len(rhs) # planSize(p) THEN ErrSizeMismatch
  ELSE IF (p.alpha = 0 /\ \A axis \in 0..(p.dim - 1) : HasNullspace(p.bc[axis + 1]))
          /\ p.opts.Nullspace = NullspaceError
       THEN ErrNullspace
  ELSE OK

(* The error Solve returns before touching the workspace, or OK. *)
solveGate(p, dstNil, rhsNil, dstLen, rhs) ==
  IF dstNil \/ rhsNil THEN ErrNilBuffer
  ELSE IF dstLen # planSize(p) \/ Len(rhs) # planSize(p) THEN ErrSizeMismatch
  ELSE IF hasNullspace(p) /\ p.opts.Nullspace = NullspaceError
       THEN ErrNullspace
  ELSE IF hasNullspace(p) /\ p.opts.Nullspace = NullspaceZeroMode
          /\ ~meanWithinTolerance(meanOf(rhs), maxAbsOf(rhs, Len(rhs)))
       THEN ErrNonZeroMean
  ELSE OK

(* A variant of solveOffset that removes nothing. *)
solveOffsetZero(p, rhs) == RZero

(* offset = mean under SubtractMean on a plan with a nullspace. *)
solveOffset(p, rhs) ==
  IF hasNullspace(p) /\ p.opts.Nullspace = NullspaceSubtractMean
  THEN meanOf(rhs) ELSE RZero

(* work.Complex[i] = complex(v - offset, 0) *)
solveLift(p, rhs) ==
  [i \in 1..Len(rhs) |-> Cx(RSub(rhs[i], solveOffset(p, rhs)), RZero)]

----------------------------------------------------------------------------
(* Boundary faces and boundary data [Face, Type, Values]. *)

XLow == "XLow"
XHigh == "XHigh"
YLow == "YLow"
YHigh == "YHigh"
ZLow == "ZLow"
ZHigh == "ZHigh"
Faces == {XLow, XHigh, YLow, YHigh, ZLow, ZHigh}

(* faceAxis: the axis of a face, or -1 for "not ok". *)
faceAxis(face) ==
  CASE face \in {XLow, XHigh} -> 0
    [] face \in {YLow, YHigh} -> 1
    [] face \in {ZLow, ZHigh} -> 2
    [] OTHER -> -1

faceIsHigh(face) == face \in {XHigh, YHigh, ZHigh}

(* validateBoundaryConditions: the first datum that fails decides. *)
validateBoundaryConditions(p, bc) ==
  IF \E m \in 1..Len(bc) :
       \/ faceAxis(bc[m].Face) < 0
       \/ faceAxis(bc[m].Face) >= p.dim
       \/ p.bc[faceAxis(bc[m].Face) + 1] = Periodic
       \/ p.bc[faceAxis(bc[m].Face) + 1] # bc[m].Type
  THEN ValidationError ELSE OK

(* Row-major coordinates of a linear index. *)
coordOf(shape, idx) ==
  <<idx \div (shape[2] * shape[3]),
    (idx % (shape[2] * shape[3])) \div shape[3],
    idx % shape[3]>>

(* The number of values a face takes: the product of the other sizes. *)
expectedFace(shape, face) ==
  shape[otherAxes(faceAxis(face))[1] + 1]
    * shape[otherAxes(faceAxis(face))[2] + 1]

(* The layer of grid points the face loop visits. *)
onFaceLayer(shape, face, idx) ==
  coordOf(shape, idx)[faceAxis(face) + 1]
    = IF faceIsHigh(face) THEN shape[faceAxis(face) + 1] - 1 ELSE 0

(* The index into data.Values the face loop pairs with grid index idx:  *)
(* X: j*nz + k, Y: i*nz + k, Z: i*ny + j.                                *)
faceValueIndex(shape, face, idx) ==
  LET c == coordOf(shape, idx)
  IN  CASE faceAxis(face) = 0 -> c[2] * shape[3] + c[3]
        [] faceAxis(face) = 1 -> c[1] * shape[3] + c[3]
        [] OTHER -> c[1] * shape[2] + c[2]

(* The error, if any, one datum raises before its loop runs. *)
faceError(shape, data, kind) ==
  IF data.Type # kind THEN ValidationError
  ELSE IF faceAxis(data.Face) < 0 THEN ValidationError
  ELSE IF ShapeDim(shape) < faceAxis(data.Face) + 1 THEN ValidationError
  ELSE IF Len(data.Values) # expectedFace(shape, data.Face) THEN SizeError
  ELSE OK

(* rhs[...] -= data.Values[...] * invH2 *)
dirichletFace(rhs, shape, invh, data) ==
  LET k == invh[faceAxis(data.Face) + 1]
  IN  [x \in 1..Len(rhs) |->
         IF onFaceLayer(shape, data.Face, x - 1)
         THEN RSub(rhs[x],
                   RMul(data.Values[faceValueIndex(shape, data.Face, x - 1) + 1],
                        R(k * k)))
         ELSE rhs[x]]

(* A variant of neumannScale with +1/h on both faces. *)
neumannScaleUnsigned(invh, face) == R(invh[faceAxis(face) + 1])

(* scale = -1/h on a Low face, +1/h on a High face. *)
neumannScale(invh, face) ==
  IF faceIsHigh(face) THEN R(invh[faceAxis(face) + 1])
  ELSE R(-invh[faceAxis(face) + 1])

(* rhs[...] += data.Values[...] * scale *)
neumannFace(rhs, shape, invh, data) ==
  [x \in 1..Len(rhs) |->
     IF onFaceLayer(shape, data.Face, x - 1)
     THEN RAdd(rhs[x],
               RMul(data.Values[faceValueIndex(shape, data.Face, x - 1) + 1],
                    neumannScale(invh, data.Face)))
     ELSE rhs[x]]

(* The loop over the data: a datum in error stops it, leaving the       *)
(* patches of the data before it applied.                               *)
RECURSIVE dirichletFrom(_, _, _, _, _)
dirichletFrom(rhs, shape, invh, bc, m) ==
  IF m > Len(bc) THEN [rhs |-> rhs, err |-> OK]
  ELSE IF faceError(shape, bc[m], Dirichlet) # OK
       THEN [rhs |-> rhs, err |-> faceError(shape, bc[m], Dirichlet)]
  ELSE dirichletFrom(dirichletFace(rhs, shape, invh, bc[m]),
                     shape, invh, bc, m + 1)

ApplyDirichletRHS(rhs, shape, invh, bc) ==
  IF Len(rhs) # ShapeSize(shape) THEN [rhs |-> rhs, err |-> SizeError]
  ELSE dirichletFrom(rhs, shape, invh, bc, 1)

RECURSIVE neumannFrom(_, _, _, _, _)
neumannFrom(rhs, shape, invh, bc, m) ==
  IF m > Len(bc) THEN [rhs |-> rhs, err |-> OK]
  ELSE IF faceError(shape, bc[m], Neumann) # OK
       THEN [rhs |-> rhs, err |-> faceError(shape, bc[m], Neumann)]
  ELSE neumannFrom(neumannFace(rhs, shape, invh, bc[m]),
                   shape, invh, bc, m + 1)

ApplyNeumannRHS(rhs, shape, invh, bc) ==
  IF Len(rhs) # ShapeSize(shape) THEN [rhs |-> rhs, err |-> SizeError]
  ELSE neumannFrom(rhs, shape, invh, bc, 1)

(* The data of one kind, in their order (the dirichlet/neumann split). *)
RECURSIVE ofType(_, _, _)
ofType(bc, kind, m) ==
  IF m > Len(bc) THEN <<>>
  ELSE IF bc[m].Type = kind THEN <<bc[m]>> \o ofType(bc, kind, m + 1)
  ELSE ofType(bc, kind, m + 1)

(* SolveWithBC from the copy to the two patches: the buffer handed to   *)
(* Solve, and the error that stops the call before Solve.               *)
patchBoundary(p, buf, bc) ==
  LET d == ofType(bc, Dirichlet, 1)
      n == ofType(bc, Neumann, 1)
      afterD == IF Len(d) > 0
                THEN ApplyDirichletRHS(buf, planShape(p), p.invh, d)
                ELSE [rhs |-> buf, err |-> OK]
  IN  IF \E m \in 1..Len(bc) : bc[m].Type \notin {Dirichlet, Neumann}
      THEN [rhs |-> buf, err |-> ValidationError]
      ELSE IF afterD.err # OK THEN afterD
      ELSE IF Len(n) > 0
           THEN ApplyNeumannRHS(afterD.rhs, planShape(p), p.invh, n)
           ELSE afterD

----------------------------------------------------------------------------
(* The axis transforms on the workspace, one line and one chunk of lines. *)

(* The linear indices of line number `line` along `axis`. *)
lineIndices(shape, axis, line) ==
  [t \in 1..ShapeN(shape, axis) |->
     lineStartIndex(shape, axis, line)
       + (t - 1) * RowMajorStride(shape)[axis + 1]]

(* transformLine of the transform the axis kind selects: the FFT on the  *)
(* complex line, or the DST-I / DCT-II on its real and imaginary parts.  *)
transformLine(bc, x, inverse) ==
  LET re == [t \in 1..Len(x) |-> Re(x[t])]
      im == [t \in 1..Len(x) |-> Im(x[t])]
      join(a, c) == [t \in 1..Len(x) |-> Cx(a[t], c[t])]
  IN  CASE bc = Periodic ->
             IF inverse THEN FFTInverse(x) ELSE FFTForward(x)
        [] bc = Dirichlet ->
             IF inverse THEN join(DSTInverse(re), DSTInverse(im))
             ELSE join(DSTForward(re), DSTForward(im))
        [] bc = Neumann ->
             IF inverse THEN join(DCT2Inverse(re), DCT2Inverse(im))
             ELSE join(DCT2Forward(re), DCT2Forward(im))

applyLine(p, work, axis, inverse, line) ==
  LET idxs == lineIndices(planShape(p), axis, line)
      out == transformLine(p.bc[axis + 1],
                           [t \in 1..Len(idxs) |-> work[idxs[t] + 1]],
                           inverse)
  IN  [x \in 1..Len(work) |->
         IF \E t \in 1..Len(idxs) : idxs[t] = x - 1
         THEN out[CHOOSE t \in 1..Len(idxs) : idxs[t] = x - 1]
         ELSE work[x]]

(* for line := startLine; line < endLine; line++ *)
RECURSIVE transformChunk(_, _, _, _, _, _)
transformChunk(p, work, axis, inverse, startLine, endLine) ==
  IF startLine >= endLine THEN work
  ELSE transformChunk(p, applyLine(p, work, axis, inverse, startLine),
                      axis, inverse, startLine + 1, endLine)

(* The checks TransformLines / transformLines make before dispatching. *)
transformLinesCheck(p, work, axis) ==
  IF Len(work) # ShapeSize(planShape(p)) THEN ErrSizeMismatch
  ELSE IF ShapeN(planShape(p), axis) # p.n[axis + 1] THEN ErrSizeMismatch
  ELSE OK

----------------------------------------------------------------------------
(* The scratch buffers the axis transforms own and reuse from call to   *)
(* call: per worker, realBuf and imagBuf of the axis length and the     *)
(* r2r plan's fftIn and fftOut of its extended length. An FFT axis of   *)
(* power-of-two length is transformed in place (TransformStrided) and   *)
(* leaves scratchA, scratchB untouched.                                 *)

extendedLen(bc, n) ==
  CASE bc = Dirichlet -> 2 * (n + 1)
    [] bc = Neumann -> 2 * n
    [] OTHER -> 0

(* make([]float64, n), make([]complex128, extendedN): all zero. *)
newWorkerScratch(bc, n) ==
  [realBuf |-> [i \in 1..n |-> RZero],
   imagBuf |-> [i \in 1..n |-> RZero],
   fftIn |-> [j \in 1..extendedLen(bc, n) |-> CZero],
   fftOut |-> [j \in 1..extendedLen(bc, n) |-> CZero]]

(* scratch[axis + 1][worker + 1], one entry per effective worker. *)
NewScratch(p) ==
  [a \in 1..3 |->
     IF a <= p.dim
     THEN [w \in 1..p.opts.Workers |-> newWorkerScratch(p.bc[a], p.n[a])]
     ELSE <<>>]

(* A variant of copyIn that leaves the buffer as the last line left it. *)
copyInSkipped(buf, vals) == buf

(* for i := 0; i < length; i++ { realBuf[i] = real(v) } *)
copyIn(buf, vals) ==
  [i \in 1..Len(buf) |-> IF i <= Len(vals) THEN vals[i] ELSE buf[i]]

(* DSTPlan.Forward up to the FFT: fftIn is cleared, then positions     *)
(* 1..n take src and positions extendedN-1-i take -src[i].              *)
dstFill(fftIn, src) ==
  LET n == Len(src)
      extendedN == Len(fftIn)
      cleared == [j \in 1..extendedN |-> CZero]
  IN  [j \in 1..extendedN |->
         IF j - 1 >= extendedN - n
         THEN Cx(RNeg(src[extendedN - (j - 1)]), RZero)
         ELSE IF 1 <= j - 1 /\ j - 1 <= n THEN Cx(src[j - 1], RZero)
         ELSE cleared[j]]

(* dst[k] = -imag(fftOut[k+1]) / 2 *)
dstExtract(fftOut, n) ==
  [k \in 1..n |-> RDiv(RNeg(Im(fftOut[k + 1])), R(2))]

(* DCT2Plan.Forward up to the FFT: fftIn is cleared, then positions    *)
(* i and extendedN-1-i take src[i].                                     *)
dctFill(fftIn, src) ==
  LET n == Len(src)
      extendedN == Len(fftIn)
      cleared == [j \in 1..extendedN |-> CZero]
  IN  [j \in 1..extendedN |->
         IF j - 1 >= extendedN - n THEN Cx(src[extendedN - (j - 1)], RZero)
         ELSE IF j <= n THEN Cx(src[j], RZero)
         ELSE cleared[j]]

(* dst[k] = real(fftOut[k] * phase[k]) / 2 *)
dctExtract(fftOut, n) ==
  [k \in 1..n |-> RDiv(Re(CMul(fftOut[k], DCT2Phase(k - 1, n))), R(2))]

(* plan.Forward(buf, buf) / plan.Inverse(buf, buf) of the r2r plan of  *)
(* one worker, on its fftIn and fftOut as the last use left them.       *)
r2rOn(bc, inverse, s, buf) ==
  LET n == Len(buf)
      fftIn == IF bc = Dirichlet THEN dstFill(s.fftIn, buf)
               ELSE dctFill(s.fftIn, buf)
      fftOut == FFTForward(fftIn)
  IN  CASE bc = Dirichlet ->
             [out |-> IF inverse
                      THEN [i \in 1..n |->
                              RMul(dstExtract(fftOut, n)[i], Norm(2, n + 1))]
                      ELSE dstExtract(fftOut, n),
              fftIn |-> fftIn, fftOut |-> fftOut]
        [] bc = Neumann /\ inverse ->
             [out |-> DCT2Inverse(buf), fftIn |-> s.fftIn,
              fftOut |-> s.fftOut]
        [] OTHER ->
             [out |-> dctExtract(fftOut, n), fftIn |-> fftIn,
              fftOut |-> fftOut]

(* transformLine of the axis kind on one worker's scratch s: the line  *)
(* it leaves in data and the scratch it leaves behind.                  *)
transformLineOn(bc, x, inverse, s) ==
  IF bc = Periodic
  THEN [line |-> transformLine(bc, x, inverse), scratch |-> s]
  ELSE LET realBuf == copyIn(s.realBuf, [t \in 1..Len(x) |-> Re(x[t])])
           imagBuf == copyIn(s.imagBuf, [t \in 1..Len(x) |-> Im(x[t])])
           re == r2rOn(bc, inverse, s, realBuf)
           im == r2rOn(bc, inverse,
                       [s EXCEPT !.fftIn = re.fftIn, !.fftOut = re.fftOut],
                       imagBuf)
       IN  [line |-> [t \in 1..Len(x) |-> Cx(re.out[t], im.out[t])],
            scratch |-> [realBuf |-> re.out, imagBuf |-> im.out,
                         fftIn |-> im.fftIn, fftOut |-> im.fftOut]]

applyLineOn(p, st, axis, inverse, line) ==
  LET idxs == lineIndices(planShape(p), axis, line)
      r == transformLineOn(p.bc[axis + 1],
                           [t \in 1..Len(idxs) |-> st.work[idxs[t] + 1]],
                           inverse, st.scratch)
  IN  [work |-> [x \in 1..Len(st.work) |->
                   IF \E t \in 1..Len(idxs) : idxs[t] = x - 1
                   THEN r.line[CHOOSE t \in 1..Len(idxs) : idxs[t] = x - 1]
                   ELSE st.work[x]],
       scratch |-> r.scratch]

(* for line := startLine; line < endLine; line++, on the workspace and *)
(* the worker's scratch st = [work, scratch].                           *)
RECURSIVE transformChunkOn(_, _, _, _, _, _)
transformChunkOn(p, st, axis, inverse, startLine, endLine) ==
  IF startLine >= endLine THEN st
  ELSE transformChunkOn(p, applyLineOn(p, st, axis, inverse, startLine),
                        axis, inverse, startLine + 1, endLine)

----------------------------------------------------------------------------
(* applyEigenvalues: the spectral divide over [start, end). *)

denomAt(p, idx) ==
  LET c == coordOf(planShape(p), idx)
  IN  RAdd(RAdd(RAdd(R(p.alpha), p.eig[1][c[1] + 1]),
                IF p.dim > 1 THEN p.eig[2][c[2] + 1] ELSE RZero),
           IF p.dim > 2 THEN p.eig[3][c[3] + 1] ELSE RZero)

isZeroModeIndex(p, idx) ==
  LET c == coordOf(planShape(p), idx)
  IN  c[1] = 0 /\ (p.dim < 2 \/ c[2] = 0) /\ (p.dim < 3 \/ c[3] = 0)

(* A variant of the divide that pins every zero denominator to 0 and  *)
(* never reports Resonant.                                             *)
RECURSIVE divideChunkPinAll(_, _, _, _)
divideChunkPinAll(p, work, start, end) ==
  IF start >= end THEN [work |-> work, err |-> OK]
  ELSE divideChunkPinAll(p,
         [work EXCEPT ![start + 1] =
            IF denomAt(p, start)[1] = 0 THEN CZero
            ELSE CDivReal(@, denomAt(p, start))],
         start + 1, end)

RECURSIVE divideChunk(_, _, _, _)
divideChunk(p, work, start, end) ==
  IF start >= end THEN [work |-> work, err |-> OK]
  ELSE IF denomAt(p, start)[1] = 0
       THEN IF hasNullspace(p) /\ isZeroModeIndex(p, start)
            THEN divideChunk(p, [work EXCEPT ![start + 1] = CZero],
                             start + 1, end)
            ELSE [work |-> work, err |-> ErrResonant]
  ELSE divideChunk(p, [work EXCEPT ![start + 1] =
                                     CDivReal(@, denomAt(p, start))],
                   start + 1, end)

(* A variant of addMeanOf that adds the configured mean on every plan. *)
addMeanAlways(p) ==
  IF p.opts.SolutionMean # NoMean THEN R(p.opts.SolutionMean[1]) ELSE RZero

(* addMean and the write-out dst[i] = real(work[i]) + addMean. *)
addMeanOf(p) ==
  IF hasNullspace(p) /\ p.opts.SolutionMean # NoMean
  THEN R(p.opts.SolutionMean[1]) ELSE RZero

writeOut(p, work) == [i \in 1..Len(work) |-> RAdd(Re(work[i]), addMeanOf(p))]

----------------------------------------------------------------------------
(* Solve with one worker: every parallelFor runs its whole range in the  *)
(* calling thread. Returns the error and, on success, the dst written.   *)

RECURSIVE seqForward(_, _, _)
seqForward(p, work, axis) ==
  IF axis >= p.dim THEN work
  ELSE seqForward(p, transformChunk(p, work, axis, FALSE, 0,
                                    lineCount(planShape(p), axis)),
                  axis + 1)

RECURSIVE seqInverse(_, _, _)
seqInverse(p, work, axis) ==
  IF axis < 0 THEN work
  ELSE seqInverse(p, transformChunk(p, work, axis, TRUE, 0,
                                    lineCount(planShape(p), axis)),
                  axis - 1)

SeqSolve(p, dstNil, rhsNil, dst, rhs) ==
  LET gate == solveGate(p, dstNil, rhsNil, Len(dst), rhs)
      div == divideChunk(p, seqForward(p, solveLift(p, rhs), 0),
                         0, planSize(p))
  IN  IF gate # OK THEN [err |-> gate, dst |-> dst]
      ELSE IF div.err # OK THEN [err |-> div.err, dst |-> dst]
      ELSE [err |-> OK,
            dst |-> writeOut(p, seqInverse(p, div.work, p.dim - 1))]

----------------------------------------------------------------------------
(* The callers of the plan. A buffer is named <<caller, role>>; Nil is   *)
(* the absent buffer. call[c] is where caller c stands in its call:      *)
(* pc is idle, then forward / divide / inverse while a parallelFor of    *)
(* that section runs (pending = the workers not yet finished), then      *)
(* write, then done with the error returned.                             *)

Nil == <<0, "nil">>

bufOf(b, ref) == IF ref = Nil THEN <<>> ELSE b[ref]

idleCall ==
  [op |-> "none", dst |-> Nil, rhs |-> Nil, bc |-> <<>>, pc |-> "idle",
   axis |-> 0, workers |-> 0, tasks |-> 0, pending |-> {},
   secErr |-> OK, err |-> OK]

logEntry(op, axis) == [op |-> op, axis |-> axis]

(* The calling thread returns err. *)
returned(rec, err) ==
  [rec EXCEPT !.pc = "done", !.err = err, !.pending = {}]

(* The calling thread enters a parallelFor: Forward / Inverse of the     *)
(* axis transform (numLines tasks) or applyEigenvalues (size tasks).     *)
dispatch(rec, pc, axis) ==
  LET tasks == IF pc = "divide" THEN planSize(plan)
               ELSE lineCount(planShape(plan), axis)
      w == clampWorkers(plan.opts.Workers, tasks)
  IN  [rec EXCEPT !.pc = pc, !.axis = axis, !.workers = w, !.tasks = tasks,
                  !.pending = parallelWorkers(w, tasks), !.secErr = OK]

(* Solve from its first line to the dispatch of Forward on axis 0, on   *)
(* the buffers dst and rhs; b and wr are the caller buffers and the     *)
(* real workspace as the caller of Solve left them.                     *)
SolveBegin(c, op, dst, rhs, bc, rhsVals, b, wr) ==
  LET gate == solveGate(plan, dst = Nil, rhs = Nil,
                        Len(bufOf(b, dst)), rhsVals)
      rec == [idleCall EXCEPT !.op = op, !.dst = dst, !.rhs = rhs, !.bc = bc]
      check == transformLinesCheck(plan, solveLift(plan, rhsVals), 0)
  IN  /\ bufs' = b
      /\ workR' = wr
      /\ heap' = 0
      /\ UNCHANGED <<plan, scratch, calls>>
      /\ IF gate # OK
         THEN /\ call' = [call EXCEPT ![c] = returned(rec, gate)]
              /\ hist' = [hist EXCEPT ![c] = [bufs0 |-> bufs, log |-> <<>>]]
              /\ UNCHANGED workC
         ELSE /\ workC' = solveLift(plan, rhsVals)
              /\ call' = [call EXCEPT ![c] =
                            IF check # OK THEN returned(rec, check)
                            ELSE dispatch(rec, "forward", 0)]
              /\ hist' = [hist EXCEPT ![c] =
                            [bufs0 |-> bufs,
                             log |-> IF check # OK
                                     THEN <<logEntry("lift", -1)>>
                                     ELSE <<logEntry("lift", -1),
                                            logEntry("forward", 0)>>]]

(* The buffers of caller c: A and B of the plan's size, S one element  *)
(* longer; a caller passes dst from DstRefs and rhs from RhsRefs.       *)
bufA(c) == <<c, "A">>
bufB(c) == <<c, "B">>
bufS(c) == <<c, "S">>

DstRefs(c) == {Nil, bufA(c), bufS(c)}
RhsRefs(c) == {Nil, bufA(c), bufB(c), bufS(c)}

(* Plan.Solve(dst, rhs) *)
Solve(c) ==
  /\ call[c].pc = "idle"
  /\ \E dst \in DstRefs(c), rhs \in RhsRefs(c) :
       SolveBegin(c, "Solve", dst, rhs, <<>>, bufOf(bufs, rhs), bufs, workR)

(* Plan.Solve(dst, rhs) on the caller's own two buffers of the plan's   *)
(* size.                                                                *)
SolveOwn(c) ==
  /\ call[c].pc = "idle"
  /\ SolveBegin(c, "Solve", bufA(c), bufB(c), <<>>, bufOf(bufs, bufB(c)),
                bufs, workR)

(* A variant of SolveInPlace in which buf is cleared before it is read. *)
SolveInPlaceClearFirst(c) ==
  /\ call[c].pc = "idle"
  /\ \E buf \in DstRefs(c) :
       SolveBegin(c, "SolveInPlace", buf, buf, <<>>,
                  [i \in 1..Len(bufOf(bufs, buf)) |-> RZero], bufs, workR)

(* Plan.SolveInPlace(buf) *)
SolveInPlace(c) ==
  /\ call[c].pc = "idle"
  /\ \E buf \in DstRefs(c) :
       SolveBegin(c, "SolveInPlace", buf, buf, <<>>, bufOf(bufs, buf),
                  bufs, workR)

(* The boundary data a caller may pass: one datum per face, its values *)
(* all g; `extra` makes the datum longer than the face.                *)
faceData(p, face, kind, g, extra) ==
  [Face |-> face, Type |-> kind,
   Values |-> [m \in 1..(expectedFace(planShape(p), face) + extra) |-> R(g)]]

BCInputs(p) ==
  { <<>>,
    <<faceData(p, XLow, Dirichlet, 1, 0)>>,
    <<faceData(p, XLow, Dirichlet, 1, 0), faceData(p, XHigh, Dirichlet, 2, 1)>>,
    <<faceData(p, XLow, Neumann, 1, 0), faceData(p, XHigh, Neumann, 2, 0)>>,
    <<faceData(p, YHigh, Neumann, 1, 0)>>,
    <<faceData(p, ZLow, Neumann, 1, 0)>> }

(* A variant of bcBufferIsRhs that patches rhs itself on every plan. *)
bcBufferAlwaysRhs(p) == TRUE

(* SolveWithBC patches rhs itself when the plan is in-place, and the   *)
(* copy of rhs in work.Real otherwise.                                 *)
bcBufferIsRhs(p) == p.opts.InPlace

(* Plan.SolveWithBC(dst, rhs, bc) *)
SolveWithBC(c) ==
  /\ call[c].pc = "idle"
  /\ \E dst \in DstRefs(c), rhs \in RhsRefs(c) \ {bufS(c)},
        bc \in BCInputs(plan) :
       LET rec == [idleCall EXCEPT !.op = "SolveWithBC", !.dst = dst,
                                   !.rhs = rhs, !.bc = bc]
           fail(err, b, wr) ==
             /\ call' = [call EXCEPT ![c] = returned(rec, err)]
             /\ hist' = [hist EXCEPT ![c] = [bufs0 |-> bufs, log |-> <<>>]]
             /\ bufs' = b
             /\ workR' = wr
             /\ heap' = 0
             /\ UNCHANGED <<plan, workC, scratch, calls>>
           patched == patchBoundary(plan, bufOf(bufs, rhs), bc)
           b1 == IF bcBufferIsRhs(plan)
                 THEN [bufs EXCEPT ![rhs] = patched.rhs] ELSE bufs
           wr1 == IF bcBufferIsRhs(plan) THEN workR ELSE patched.rhs
       IN  IF dst = Nil \/ rhs = Nil THEN fail(ErrNilBuffer, bufs, workR)
           ELSE IF Len(bufOf(bufs, dst)) # planSize(plan)
                   \/ Len(bufOf(bufs, rhs)) # planSize(plan)
                THEN fail(ErrSizeMismatch, bufs, workR)
           ELSE IF Len(bc) = 0
                THEN SolveBegin(c, "SolveWithBC", dst, rhs, bc,
                                bufOf(bufs, rhs), bufs, workR)
           ELSE IF validateBoundaryConditions(plan, bc) # OK
                THEN fail(validateBoundaryConditions(plan, bc), bufs, workR)
           ELSE IF patched.err # OK THEN fail(patched.err, b1, wr1)
           ELSE SolveBegin(c, "SolveWithBC", dst, rhs, bc, patched.rhs,
                           b1, wr1)

(* The slices one transformLine allocates: DCT2Plan.Inverse is called  *)
(* with dst = src (realBuf, then imagBuf) and copies src into a new     *)
(* slice; every other transform works on buffers the plan holds.        *)
lineAllocs(bc, inverse) == IF bc = Neumann /\ inverse THEN 2 ELSE 0

(* The slices allocated on the lines [startLine, endLine) of one axis. *)
chunkAllocs(p, axis, inverse, startLine, endLine) ==
  (endLine - startLine) * lineAllocs(p.bc[axis + 1], inverse)

(* One goroutine of a transform's parallelFor (or the calling thread,   *)
(* when it runs in-thread) transforms its lines [startLine, endLine).   *)
TransformWorker(c) ==
  /\ call[c].pc \in {"forward", "inverse"}
  /\ \E w \in call[c].pending :
       LET r == transformChunkOn(plan,
                  [work |-> workC,
                   scratch |-> scratch[call[c].axis + 1][w + 1]],
                  call[c].axis, call[c].pc = "inverse",
                  parallelStart(call[c].workers, call[c].tasks, w),
                  parallelEnd(call[c].workers, call[c].tasks, w))
       IN  /\ workC' = r.work
           /\ scratch' = [scratch EXCEPT ![call[c].axis + 1][w + 1] =
                                           r.scratch]
           /\ call' = [call EXCEPT ![c].pending = @ \ {w}]
           /\ heap' = heap + chunkAllocs(plan, call[c].axis,
                                         call[c].pc = "inverse",
                                         parallelStart(call[c].workers,
                                                       call[c].tasks, w),
                                         parallelEnd(call[c].workers,
                                                     call[c].tasks, w))
  /\ UNCHANGED <<plan, workR, bufs, hist, calls>>

(* One goroutine of applyEigenvalues divides its indices [start, end);  *)
(* errOnce keeps the first error reported.                              *)
DivideWorker(c) ==
  /\ call[c].pc = "divide"
  /\ \E w \in call[c].pending :
       LET r == divideChunk(plan, workC,
                  parallelStart(call[c].workers, call[c].tasks, w),
                  parallelEnd(call[c].workers, call[c].tasks, w))
       IN  /\ workC' = r.work
           /\ call' = [call EXCEPT ![c].pending = @ \ {w},
                                   ![c].secErr = IF @ = OK THEN r.err ELSE @]
  /\ UNCHANGED <<plan, workR, scratch, bufs, hist, calls, heap>>

(* A variant of solveNext whose Inverse loop runs on axis 0..dim-1. *)
solveNextAscending(p, pc, axis) ==
  CASE pc = "forward" /\ axis + 1 < p.dim -> [pc |-> "forward", axis |-> axis + 1]
    [] pc = "forward" -> [pc |-> "divide", axis |-> 0]
    [] pc = "divide" -> [pc |-> "inverse", axis |-> 0]
    [] pc = "inverse" /\ axis + 1 < p.dim -> [pc |-> "inverse", axis |-> axis + 1]
    [] OTHER -> [pc |-> "write", axis |-> 0]

(* The loops of Solve: which parallelFor follows the one that just     *)
(* ended without error. Forward runs on axis 0..dim-1, the divide once, *)
(* Inverse on axis dim-1..0, then the write-out.                        *)
solveNext(p, pc, axis) ==
  CASE pc = "forward" /\ axis + 1 < p.dim -> [pc |-> "forward", axis |-> axis + 1]
    [] pc = "forward" -> [pc |-> "divide", axis |-> 0]
    [] pc = "divide" -> [pc |-> "inverse", axis |-> p.dim - 1]
    [] pc = "inverse" /\ axis - 1 >= 0 -> [pc |-> "inverse", axis |-> axis - 1]
    [] OTHER -> [pc |-> "write", axis |-> 0]

(* A variant of wgCount in which wg.Add(1) is also called for the     *)
(* chunk index at which the loop of parallelFor breaks.                 *)
wgCountExtraAdd(pending) == Cardinality(pending) + 1

(* The counter of the sync.WaitGroup: one wg.Add(1) for each goroutine *)
(* started, one wg.Done() for each that has finished.                   *)
wgCount(pending) == Cardinality(pending)

(* wg.Wait() returns (or the in-thread fn returns) and Solve goes on to *)
(* its next loop, or returns the error.                                 *)
Join(c) ==
  /\ call[c].pc \in {"forward", "divide", "inverse"}
  /\ wgCount(call[c].pending) = 0
  /\ LET rec == call[c]
         nxt == solveNext(plan, rec.pc, rec.axis)
         check == IF nxt.pc \in {"forward", "inverse"}
                  THEN transformLinesCheck(plan, workC, nxt.axis) ELSE OK
         goesOn == rec.secErr = OK /\ nxt.pc # "write" /\ check = OK
     IN  /\ call' = [call EXCEPT ![c] =
                       CASE rec.secErr # OK -> returned(rec, rec.secErr)
                         [] nxt.pc = "write" -> [rec EXCEPT !.pc = "write"]
                         [] check # OK -> returned(rec, check)
                         [] OTHER -> dispatch(rec, nxt.pc, nxt.axis)]
         /\ hist' = [hist EXCEPT ![c].log =
                       IF goesOn THEN Append(@, logEntry(nxt.pc, nxt.axis))
                       ELSE @]
  /\ UNCHANGED <<plan, workC, workR, scratch, bufs, calls, heap>>

(* dst[i] = real(work[i]) + addMean; return nil *)
WriteOut(c) ==
  /\ call[c].pc = "write"
  /\ bufs' = [bufs EXCEPT ![call[c].dst] = writeOut(plan, workC)]
  /\ call' = [call EXCEPT ![c] = returned(@, OK)]
  /\ hist' = [hist EXCEPT ![c].log = Append(@, logEntry("write", -1))]
  /\ UNCHANGED <<plan, workC, workR, scratch, calls, heap>>

----------------------------------------------------------------------------
(* Bounds and the inputs drawn within them. *)

MaxWorkers == 3
MaxVal == 1

(* Options: a policy, an optional solution mean, a requested worker     *)
(* count (0 = GOMAXPROCS) and the in-place flag.                        *)
DefaultOptions ==
  [Nullspace |-> NullspaceZeroMode, SolutionMean |-> NoMean,
   UseRealFFT |-> FALSE, Workers |-> 0, InPlace |-> FALSE]

OptionSet ==
  {[DefaultOptions EXCEPT !.Nullspace = ns, !.SolutionMean = sm,
                          !.Workers = w, !.InPlace = ip] :
     ns \in {NullspaceZeroMode, NullspaceSubtractMean, NullspaceError},
     sm \in {NoMean, <<3>>}, w \in 0..MaxWorkers, ip \in BOOLEAN}

GoMaxProcs == 1..MaxWorkers

Axis(bc, n, k) == [bc |-> bc, n |-> n, k |-> k]

(* Axes the transforms are exact on: Periodic of length 1, 2, 4,        *)
(* Dirichlet and Neumann of length 1.                                   *)
Shapes ==
  { <<Axis(Periodic, 2, 1)>>, <<Axis(Periodic, 4, 1)>>,
    <<Axis(Periodic, 2, 2)>>,
    <<Axis(Dirichlet, 1, 1)>>, <<Axis(Neumann, 1, 2)>>,
    <<Axis(Periodic, 2, 1), Axis(Periodic, 2, 1)>>,
    <<Axis(Dirichlet, 1, 1), Axis(Periodic, 2, 1)>>,
    <<Axis(Neumann, 1, 1), Axis(Periodic, 2, 1)>>,
    <<Axis(Periodic, 2, 1), Axis(Neumann, 1, 1)>>,
    <<Axis(Dirichlet, 1, 2), Axis(Neumann, 1, 1)>>,
    <<Axis(Periodic, 2, 1), Axis(Periodic, 1, 1), Axis(Periodic, 2, 1)>>,
    <<Axis(Dirichlet, 1, 1), Axis(Periodic, 2, 1), Axis(Neumann, 1, 1)>> }

Alphas == {0, 1, -2, -4}

planFor(axes, alpha, options, gomaxprocs) ==
  newPlanWithAlpha(Len(axes),
                   [a \in 1..Len(axes) |-> axes[a].n],
                   [a \in 1..Len(axes) |-> axes[a].k],
                   [a \in 1..Len(axes) |-> axes[a].bc],
                   alpha, options, gomaxprocs)

(* The solution mean is varied at alpha = 0 only, the policy at        *)
(* alpha >= 0 only.                                                    *)
Plans ==
  {planFor(cfg.axes, cfg.alpha, cfg.options, cfg.g) :
     cfg \in {c \in [axes : Shapes, alpha : Alphas, options : OptionSet,
                     g : GoMaxProcs] :
                /\ c.alpha # 0 => c.options.SolutionMean = NoMean
                /\ c.alpha < 0 => c.options.Nullspace = NullspaceZeroMode}}

(* Right-hand sides of a given size: zero, a unit spike, an alternating *)
(* sign (mean zero on even sizes), each scaled by 1..MaxVal.            *)
Inputs(size) ==
  {[i \in 1..size |-> RZero]}
    \cup {[i \in 1..size |-> IF i = 1 THEN R(v) ELSE RZero] : v \in 1..MaxVal}
    \cup {[i \in 1..size |-> IF i % 2 = 1 THEN R(v) ELSE R(-v)] : v \in 1..MaxVal}

Callers == {1}

Init ==
  /\ plan \in Plans
  /\ workC = NewWorkspaceComplex(plan)
  /\ workR = NewWorkspaceReal(plan)
  /\ scratch = NewScratch(plan)
  /\ calls = <<>>
  /\ heap = 0
  /\ \E x \in Inputs(planSize(plan)) :
       bufs = [r \in {bufA(1), bufB(1), bufS(1)} |->
                 IF r = bufS(1) THEN x \o <<RZero>> ELSE x]
  /\ call = [c \in Callers |-> idleCall]
  /\ hist = [c \in Callers |-> [bufs0 |-> bufs, log |-> <<>>]]

Next ==
  \E c \in Callers :
    \/ Solve(c)
    \/ SolveInPlace(c)
    \/ SolveWithBC(c)
    \/ TransformWorker(c)
    \/ DivideWorker(c)
    \/ Join(c)
    \/ WriteOut(c)

Spec == Init /\ [][Next]_vars

----------------------------------------------------------------------------
(* What the claims read off a call. *)

Done(c) == call[c].pc = "done"

IsSolve(c) == call[c].op \in {"Solve", "SolveInPlace"}

dst0(c) == bufOf(hist[c].bufs0, call[c].dst)
rhs0(c) == bufOf(hist[c].bufs0, call[c].rhs)

(* The product of the plan's D sizes. *)
GridSize == plan.n[1] * plan.n[2] * plan.n[3]

ValidBuffers(c) ==
  /\ call[c].dst # Nil
  /\ call[c].rhs # Nil
  /\ Len(dst0(c)) = GridSize
  /\ Len(rhs0(c)) = GridSize

(* alpha == 0 and every one of the D axes Periodic or Neumann. *)
NullspacePlan ==
  /\ plan.alpha = 0
  /\ \A a \in 1..plan.dim : plan.bc[a] \in {Periodic, Neumann}

(* |mean(x)| > eps * (1 + max_abs(x)) *)
MeanExceeds(x) == ~meanWithinTolerance(meanOf(x), maxAbsOf(x, Len(x)))

(* The indices whose denominator alpha + sum of eigenvalues is zero. *)
ZeroDenominators == {idx \in 0..(GridSize - 1) : denomAt(plan, idx)[1] = 0}

AllZeroMode(idx) == coordOf(plan.n, idx) = <<0, 0, 0>>

(* C4 (as stated): whenever Solve, SolveInPlace or SolveWithBC returns  *)
(* a failure, every element of dst holds the value it had before the   *)
(* call.                                                                *)
C4_DstUnchangedOnFailure ==
  \A c \in DOMAIN call :
    (Done(c) /\ call[c].err # OK /\ call[c].dst # Nil)
      => bufs[call[c].dst] = dst0(c)

(* C4 (amended): a failed call leaves dst as it was, except SolveWithBC *)
(* on an in-place plan called with dst and rhs the same buffer, where   *)
(* the boundary patch is applied to that buffer before the failure.     *)
C4_DstUnchangedUnlessAliasedInPlace ==
  \A c \in DOMAIN call :
    (/\ Done(c) /\ call[c].err # OK /\ call[c].dst # Nil
     /\ ~(/\ call[c].op = "SolveWithBC"
          /\ plan.opts.InPlace
          /\ call[c].dst = call[c].rhs))
      => bufs[call[c].dst] = dst0(c)

(* A SolveWithBC on an in-place plan that patched rhs and then failed,  *)
(* with dst another buffer.                                             *)
C4_Witness ==
  \E c \in DOMAIN call :
    /\ Done(c) /\ call[c].err # OK
    /\ call[c].op = "SolveWithBC"
    /\ call[c].dst # Nil /\ call[c].rhs # Nil
    /\ call[c].dst # call[c].rhs
    /\ bufs[call[c].rhs] # rhs0(c)

(* C5: with valid buffers, Solve fails with Nullspace if and only if    *)
(* the policy is Error, alpha == 0 and every axis is Periodic or        *)
(* Neumann.                                                             *)
C5_NullspaceIff ==
  \A c \in DOMAIN call :
    (Done(c) /\ IsSolve(c) /\ ValidBuffers(c))
      => (call[c].err = ErrNullspace
            <=> (plan.opts.Nullspace = NullspaceError /\ NullspacePlan))

C5_Witness ==
  \E c \in DOMAIN call :
    /\ Done(c) /\ call[c].op = "Solve" /\ ValidBuffers(c)
    /\ call[c].err = ErrNullspace
    /\ plan.dim = 2

(* C6 (as stated): under policy ZeroMode, Solve fails with NonZeroMean  *)
(* if and only if the plan has a nullspace and the mean of rhs exceeds  *)
(* the tolerance.                                                       *)
C6_NonZeroMeanIff ==
  \A c \in DOMAIN call :
    (Done(c) /\ IsSolve(c) /\ plan.opts.Nullspace = NullspaceZeroMode)
      => (call[c].err = ErrNonZeroMean
            <=> (NullspacePlan /\ MeanExceeds(rhs0(c))))

(* C6 (amended): the same, for calls whose buffers are valid. *)
C6_NonZeroMeanIffValidBuffers ==
  \A c \in DOMAIN call :
    (/\ Done(c) /\ IsSolve(c) /\ ValidBuffers(c)
     /\ plan.opts.Nullspace = NullspaceZeroMode)
      => (call[c].err = ErrNonZeroMean
            <=> (NullspacePlan /\ MeanExceeds(rhs0(c))))

C6_Witness ==
  \E c \in DOMAIN call :
    /\ Done(c) /\ call[c].op = "Solve" /\ ValidBuffers(c)
    /\ plan.opts.Nullspace = NullspaceZeroMode
    /\ call[c].err = ErrNonZeroMean

(* C7: in the spectral divide a zero denominator at the all-zero mode   *)
(* of a plan with a nullspace sets the coefficient to 0 and Solve       *)
(* continues; a zero denominator anywhere else fails with Resonant; a   *)
(* nonzero denominator never produces Resonant.                         *)
C7_ZeroDenominator ==
  \A c \in DOMAIN call :
    /\ (Done(c) /\ ZeroDenominators = {}) => call[c].err # ErrResonant
    /\ (/\ Done(c) /\ hist[c].log # <<>>
        /\ \E idx \in ZeroDenominators : ~(NullspacePlan /\ AllZeroMode(idx)))
         => call[c].err = ErrResonant
    /\ (/\ Done(c) /\ hist[c].log # <<>>
        /\ \A idx \in ZeroDenominators : NullspacePlan /\ AllZeroMode(idx))
         => call[c].err = OK
    /\ (/\ call[c].pc = "inverse"
        /\ call[c].axis = plan.dim - 1
        /\ call[c].pending = parallelWorkers(call[c].workers, call[c].tasks)
        /\ 0 \in ZeroDenominators)
         => workC[1] = CZero

C7_Witness ==
  \E c \in DOMAIN call :
    /\ Done(c) /\ call[c].err = ErrResonant
    /\ \E idx \in ZeroDenominators : ~AllZeroMode(idx)

(* C8: Solve reports the first applicable failure in the order          *)
(* NilBuffer, SizeMismatch, Nullspace, NonZeroMean, and only then a     *)
(* transform error or Resonant.                                         *)
C8_FailureOrder ==
  \A c \in DOMAIN call :
    (Done(c) /\ IsSolve(c)) =>
      LET nilB == call[c].dst = Nil \/ call[c].rhs = Nil
          sizeB == Len(dst0(c)) # GridSize \/ Len(rhs0(c)) # GridSize
          nullB == plan.opts.Nullspace = NullspaceError /\ NullspacePlan
          meanB == /\ plan.opts.Nullspace = NullspaceZeroMode
                   /\ NullspacePlan /\ MeanExceeds(rhs0(c))
      IN  /\ nilB => call[c].err = ErrNilBuffer
          /\ (~nilB /\ sizeB) => call[c].err = ErrSizeMismatch
          /\ (~nilB /\ ~sizeB /\ nullB) => call[c].err = ErrNullspace
          /\ (~nilB /\ ~sizeB /\ ~nullB /\ meanB)
               => call[c].err = ErrNonZeroMean
          /\ (~nilB /\ ~sizeB /\ ~nullB /\ ~meanB)
               => call[c].err \in {OK, ErrResonant}

(* Three failure conditions hold at once: dst absent, rhs of the wrong  *)
(* length, and a nullspace under policy Error.                          *)
C8_Witness ==
  \E c \in DOMAIN call :
    /\ Done(c) /\ call[c].op = "Solve"
    /\ call[c].dst = Nil /\ call[c].rhs # Nil
    /\ Len(rhs0(c)) # GridSize
    /\ plan.opts.Nullspace = NullspaceError /\ NullspacePlan
    /\ call[c].err = ErrNilBuffer

(* The order of workspace operations of a successful solve. *)
ExpectedLog(d) ==
  <<logEntry("lift", -1)>>
    \o [a \in 1..d |-> logEntry("forward", a - 1)]
    \o <<logEntry("divide", 0)>>
    \o [a \in 1..d |-> logEntry("inverse", d - a)]
    \o <<logEntry("write", -1)>>

IsPrefix(s, t) == Len(s) <= Len(t) /\ \A i \in 1..Len(s) : s[i] = t[i]

(* C9: the workspace operations of a solve happen in the order lift,    *)
(* Forward on axis 0..D-1, one spectral divide, Inverse on axis D-1..0, *)
(* write-out; axes >= D are never transformed.                          *)
C9_OperationOrder ==
  \A c \in DOMAIN call :
    /\ IsPrefix(hist[c].log, ExpectedLog(plan.dim))
    /\ (Done(c) /\ call[c].err = OK) => hist[c].log = ExpectedLog(plan.dim)
    /\ \A i \in 1..Len(hist[c].log) :
         hist[c].log[i].op \in {"forward", "inverse"}
           => hist[c].log[i].axis \in 0..(plan.dim - 1)

C9_Witness ==
  \E c \in DOMAIN call :
    /\ Done(c) /\ call[c].err = OK /\ plan.dim = 3
    /\ Len(hist[c].log) = 9

(* C10: the error and the dst of Solve are those of the execution with  *)
(* one worker, whatever the configured worker count.                    *)
C10_WorkerInvariance ==
  \A c \in DOMAIN call :
    (Done(c) /\ IsSolve(c)) =>
      LET one == SeqSolve([plan EXCEPT !.opts.Workers = 1],
                          call[c].dst = Nil, call[c].rhs = Nil,
                          dst0(c), rhs0(c))
      IN  /\ call[c].err = one.err
          /\ call[c].dst # Nil => bufs[call[c].dst] = one.dst

(* A solve that ran its loops on three workers and changed dst. *)
C10_Witness ==
  \E c \in DOMAIN call :
    /\ Done(c) /\ call[c].op = "Solve" /\ call[c].err = OK
    /\ plan.opts.Workers = 3 /\ GridSize = 4
    /\ bufs[call[c].dst] # dst0(c)

----------------------------------------------------------------------------
(* Two callers run Solve on one plan at the same time, each on its own  *)
(* dst and rhs.                                                         *)

ConcCallers == {1, 2}

(* One-dimensional plans keep the interleavings of two calls few. *)
ConcPlans ==
  { planFor(<<Axis(Periodic, 2, 1)>>, 0, DefaultOptions, 1),
    planFor(<<Axis(Periodic, 2, 1)>>, 1,
            [DefaultOptions EXCEPT !.Workers = 2], 1),
    planFor(<<Axis(Periodic, 4, 1)>>, 1, DefaultOptions, 1),
    planFor(<<Axis(Dirichlet, 1, 1)>>, 0, DefaultOptions, 1) }

(* Caller 1 brings any input, caller 2 the alternating one. *)
InitConc ==
  /\ plan \in ConcPlans
  /\ workC = NewWorkspaceComplex(plan)
  /\ workR = NewWorkspaceReal(plan)
  /\ scratch = NewScratch(plan)
  /\ calls = <<>>
  /\ heap = 0
  /\ \E x \in Inputs(planSize(plan)) :
       bufs = [r \in {bufA(1), bufB(1), bufA(2), bufB(2)} |->
                 IF r[1] = 1 THEN x
                 ELSE [i \in 1..planSize(plan) |->
                         IF i % 2 = 1 THEN R(1) ELSE R(-1)]]
  /\ call = [c \in ConcCallers |-> idleCall]
  /\ hist = [c \in ConcCallers |-> [bufs0 |-> bufs, log |-> <<>>]]

NextConc ==
  \E c \in ConcCallers :
    \/ SolveOwn(c)
    \/ TransformWorker(c)
    \/ DivideWorker(c)
    \/ Join(c)
    \/ WriteOut(c)

SpecConc == InitConc /\ [][NextConc]_vars

(* C3: when two Solve calls run concurrently on the same plan, each     *)
(* with its own dst and rhs, every call returns the error and the dst   *)
(* it would return if executed alone, for every interleaving.           *)
C3_ConcurrentSolveAsAlone ==
  \A c \in DOMAIN call :
    Done(c) =>
      LET alone == SeqSolve(plan, FALSE, FALSE, dst0(c), rhs0(c))
      IN  /\ call[c].err = alone.err
          /\ bufs[call[c].dst] = alone.dst

----------------------------------------------------------------------------
(* The boundary patches against the finite-difference operator. Here    *)
(* plan holds the geometry alone (dim, n, invh, bc), so that patched    *)
(* axes can be longer than the transforms are exact on; bufs holds the  *)
(* grid function u, its negative Laplacian f evaluated with the face    *)
(* data as out-of-grid neighbours, the patched rhs and the solved dst.  *)

(* (2u - left - right)/h^2 summed over the axes; Low and High give the *)
(* out-of-grid neighbour of grid index idx along an axis.               *)
stencil(geo, u, Low, High) ==
  LET stride == RowMajorStride(geo.n)
      term(x, a) ==
        LET c == coordOf(geo.n, x - 1)[a + 1]
            left == IF c > 0 THEN u[x - stride[a + 1]] ELSE Low[a, x - 1]
            right == IF c + 1 < geo.n[a + 1] THEN u[x + stride[a + 1]]
                     ELSE High[a, x - 1]
        IN  IF a < geo.dim
            THEN RMul(RSub(RSub(RMul(R(2), u[x]), left), right),
                      R(geo.invh[a + 1] * geo.invh[a + 1]))
            ELSE RZero
  IN  [x \in 1..Len(u) |-> RAdd(RAdd(term(x, 0), term(x, 1)), term(x, 2))]

(* fd.Apply1D / Apply2D / Apply3D: the homogeneous operator. *)
fdApply(geo, u) ==
  LET stride == RowMajorStride(geo.n)
      low[a \in 0..2, idx \in 0..(Len(u) - 1)] ==
        CASE geo.bc[a + 1] = Periodic ->
               u[idx + (geo.n[a + 1] - 1) * stride[a + 1] + 1]
          [] geo.bc[a + 1] = Neumann -> u[idx + 1]
          [] OTHER -> RZero
      high[a \in 0..2, idx \in 0..(Len(u) - 1)] ==
        CASE geo.bc[a + 1] = Periodic ->
               u[idx - (geo.n[a + 1] - 1) * stride[a + 1] + 1]
          [] geo.bc[a + 1] = Neumann -> u[idx + 1]
          [] OTHER -> RZero
  IN  stencil(geo, u, low, high)

lowFace(a) == CASE a = 0 -> XLow [] a = 1 -> YLow [] OTHER -> ZLow
highFace(a) == CASE a = 0 -> XHigh [] a = 1 -> YHigh [] OTHER -> ZHigh

(* The value of the face data at the grid point idx of the face layer: *)
(* face values are stored row-major over the two other axes.            *)
ghostValue(geo, bc, face, idx) ==
  LET o == otherAxes(faceAxis(face))
      c == coordOf(geo.n, idx)
      vals == bc[CHOOSE m \in 1..Len(bc) : bc[m].Face = face].Values
  IN  vals[c[o[1] + 1] * geo.n[o[2] + 1] + c[o[2] + 1] + 1]

(* applyInhomDirichlet / applyInhomNeumann of the tests: the operator  *)
(* with the face data g as out-of-grid neighbours. On a Dirichlet face *)
(* the neighbour is g. On a Neumann face it is u -+ g*h when g is the  *)
(* derivative along the positive axis direction ("axis"), and u + g*h  *)
(* on both faces when g is the outward normal derivative ("outward"). *)
fdApplyInhom(geo, u, bc, convention) ==
  LET stride == RowMajorStride(geo.n)
      gh(a, face, idx) ==
        RDiv(ghostValue(geo, bc, face, idx), R(geo.invh[a + 1]))
      low[a \in 0..2, idx \in 0..(Len(u) - 1)] ==
        CASE geo.bc[a + 1] = Periodic ->
               u[idx + (geo.n[a + 1] - 1) * stride[a + 1] + 1]
          [] geo.bc[a + 1] = Neumann ->
               IF convention = "axis"
               THEN RSub(u[idx + 1], gh(a, lowFace(a), idx))
               ELSE RAdd(u[idx + 1], gh(a, lowFace(a), idx))
          [] OTHER -> ghostValue(geo, bc, lowFace(a), idx)
      high[a \in 0..2, idx \in 0..(Len(u) - 1)] ==
        CASE geo.bc[a + 1] = Periodic ->
               u[idx - (geo.n[a + 1] - 1) * stride[a + 1] + 1]
          [] geo.bc[a + 1] = Neumann ->
               RAdd(u[idx + 1], gh(a, highFace(a), idx))
          [] OTHER -> ghostValue(geo, bc, highFace(a), idx)
  IN  stencil(geo, u, low, high)

(* SolveWithBC with one worker, on present buffers of the right size. *)
SeqSolveWithBC(p, dst, rhs, bc) ==
  LET patched == patchBoundary(p, rhs, bc)
  IN  IF Len(bc) = 0 THEN SeqSolve(p, FALSE, FALSE, dst, rhs)
      ELSE IF validateBoundaryConditions(p, bc) # OK
           THEN [err |-> validateBoundaryConditions(p, bc), dst |-> dst]
      ELSE IF patched.err # OK THEN [err |-> patched.err, dst |-> dst]
      ELSE SeqSolve(p, FALSE, FALSE, dst, patched.rhs)

Geometry(axes) ==
  [dim |-> Len(axes),
   n |-> [a \in 1..3 |-> IF a <= Len(axes) THEN axes[a].n ELSE 1],
   invh |-> [a \in 1..3 |-> IF a <= Len(axes) THEN axes[a].k ELSE 1],
   bc |-> [a \in 1..3 |-> IF a <= Len(axes) THEN axes[a].bc ELSE Periodic]]

PatchGeometries ==
  {Geometry(axes) : axes \in
     { <<Axis(Dirichlet, 1, 1)>>, <<Axis(Dirichlet, 2, 1)>>,
       <<Axis(Dirichlet, 3, 2)>>,
       <<Axis(Dirichlet, 2, 1), Axis(Dirichlet, 2, 2)>>,
       <<Axis(Dirichlet, 1, 1), Axis(Periodic, 2, 1)>>,
       <<Axis(Dirichlet, 2, 1), Axis(Periodic, 2, 1), Axis(Dirichlet, 2, 1)>>,
       <<Axis(Neumann, 1, 2)>>, <<Axis(Neumann, 2, 1)>>,
       <<Axis(Neumann, 3, 2)>>,
       <<Axis(Neumann, 2, 1), Axis(Neumann, 2, 2)>>,
       <<Axis(Neumann, 1, 1), Axis(Periodic, 2, 1)>>,
       <<Axis(Neumann, 2, 1), Axis(Periodic, 2, 1), Axis(Neumann, 2, 1)>> }}

(* The axes the transforms are exact on. *)
Solvable(geo) ==
  \A a \in 1..geo.dim :
    \/ geo.bc[a] = Periodic /\ geo.n[a] \in FFTLengths
    \/ geo.bc[a] \in {Dirichlet, Neumann} /\ geo.n[a] = 1

(* Grid functions: a ramp, a quadratic pattern, a spike at the end. *)
GridFunctions(size) ==
  UNION {{[i \in 1..size |-> R(v * i)],
          [i \in 1..size |-> R(v * (((i * i) % 5) - 2))],
          [i \in 1..size |-> IF i = size THEN R(v) ELSE RZero]} :
           v \in 1..MaxVal}

faceNumber(face) ==
  CASE face = XLow -> 1 [] face = XHigh -> 2 [] face = YLow -> 3
    [] face = YHigh -> 4 [] face = ZLow -> 5 [] OTHER -> 6

(* Data on every face of every Dirichlet or Neumann axis, in face      *)
(* order, with values s * (face number + position).                    *)
allFaceData(geo, s) ==
  LET faces == <<XLow, XHigh, YLow, YHigh, ZLow, ZHigh>>
      datum(face) ==
        [Face |-> face, Type |-> geo.bc[faceAxis(face) + 1],
         Values |-> [m \in 1..expectedFace(geo.n, face) |->
                       R(s * (faceNumber(face) + m))]]
      wanted(face) == /\ faceAxis(face) < geo.dim
                      /\ geo.bc[faceAxis(face) + 1] # Periodic
      RECURSIVE from(_)
      from(m) == IF m > 6 THEN <<>>
                 ELSE IF wanted(faces[m]) THEN <<datum(faces[m])>> \o from(m + 1)
                 ELSE from(m + 1)
  IN  from(1)

PatchOptions ==
  { DefaultOptions,
    [DefaultOptions EXCEPT !.Nullspace = NullspaceSubtractMean],
    [DefaultOptions EXCEPT !.SolutionMean = <<3>>] }

InitPatch ==
  /\ plan \in PatchGeometries
  /\ workC = <<>>
  /\ workR = <<>>
  /\ scratch = <<>>
  /\ calls = <<>>
  /\ heap = 0
  /\ hist = <<>>
  /\ \E u \in GridFunctions(ShapeSize(plan.n)) :
       bufs = [b \in {"u", "f", "rhs", "dst"} |->
                 IF b = "u" THEN u ELSE [i \in 1..Len(u) |-> RZero]]
  /\ \E s \in {-1} \cup (1..MaxVal) :
       call = [c \in {1} |->
                 [pc |-> "start", bc |-> allFaceData(plan, s),
                  convention |-> "axis", opts |-> DefaultOptions,
                  err |-> OK]]

(* The caller evaluates f = -Laplacian(u) with the face data as        *)
(* out-of-grid neighbours.                                             *)
PatchEvaluate(c) ==
  /\ call[c].pc = "start"
  /\ \E convention \in {"axis", "outward"} :
       /\ convention = "outward" => \E a \in 1..plan.dim : plan.bc[a] = Neumann
       /\ bufs' = [bufs EXCEPT !["f"] =
                     fdApplyInhom(plan, bufs["u"], call[c].bc, convention)]
       /\ call' = [call EXCEPT ![c].pc = "evaluated",
                               ![c].convention = convention]
  /\ UNCHANGED <<plan, workC, workR, scratch, hist, calls, heap>>

(* ApplyDirichletRHS / ApplyNeumannRHS on a copy of f. *)
PatchApply(c) ==
  /\ call[c].pc = "evaluated"
  /\ LET patched == patchBoundary(plan, bufs["f"], call[c].bc)
     IN  /\ bufs' = [bufs EXCEPT !["rhs"] = patched.rhs]
         /\ call' = [call EXCEPT ![c].pc = "patched", ![c].err = patched.err]
  /\ UNCHANGED <<plan, workC, workR, scratch, hist, calls, heap>>

(* SolveWithBC(dst, f, bc) on a plan of this geometry. *)
PatchSolve(c) ==
  /\ call[c].pc = "patched"
  /\ Solvable(plan)
  /\ \E options \in PatchOptions :
       LET p == newPlanWithAlpha(plan.dim, plan.n, plan.invh, plan.bc, 0,
                                 options, 1)
           r == SeqSolveWithBC(p, bufs["dst"], bufs["f"], call[c].bc)
       IN  /\ bufs' = [bufs EXCEPT !["dst"] = r.dst]
           /\ call' = [call EXCEPT ![c].pc = "solved", ![c].err = r.err,
                                   ![c].opts = options]
  /\ UNCHANGED <<plan, workC, workR, scratch, hist, calls, heap>>

PatchCallers == {1}

NextPatch ==
  \E c \in PatchCallers :
    \/ PatchEvaluate(c)
    \/ PatchApply(c)
    \/ PatchSolve(c)

SpecPatch == InitPatch /\ [][NextPatch]_vars

HasAxisOfKind(kind) == \E a \in 1..plan.dim : plan.bc[a] = kind

(* C1: after the Dirichlet patch the RHS equals the homogeneous-        *)
(* Dirichlet FD operator applied to u, and SolveWithBC(dst, f, g)       *)
(* returns dst = u.                                                     *)
C1_DirichletPatchExact ==
  \A c \in DOMAIN call :
    HasAxisOfKind(Dirichlet) =>
      /\ call[c].pc = "patched" =>
           (call[c].err = OK /\ bufs["rhs"] = fdApply(plan, bufs["u"]))
      /\ call[c].pc = "solved" =>
           (call[c].err = OK /\ bufs["dst"] = bufs["u"])

(* The additive constant the nullspace policy fixes: the solution mean *)
(* is the configured one, or zero.                                     *)
UpToConstant(c) ==
  LET shift == RSub(IF call[c].opts.SolutionMean # NoMean
                    THEN R(call[c].opts.SolutionMean[1]) ELSE RZero,
                    meanOf(bufs["u"]))
  IN  bufs["dst"] = [i \in 1..Len(bufs["u"]) |-> RAdd(bufs["u"][i], shift)]

----------------------------------------------------------------------------
(* One caller makes call after call on one plan. The workspace, the     *)
(* real scratch and the transforms' scratch stay as each call leaves    *)
(* them; calls keeps, per completed call, the workspace it left behind. *)

MaxCalls == 2

(* The call has returned; the caller goes on to its next call. *)
Return(c) ==
  /\ call[c].pc = "done"
  /\ Len(calls) + 1 < MaxCalls
  /\ calls' = Append(calls, workC)
  /\ call' = [call EXCEPT ![c] = idleCall]
  /\ hist' = [hist EXCEPT ![c] = [bufs0 |-> bufs, log |-> <<>>]]
  /\ UNCHANGED <<plan, workC, workR, scratch, bufs, heap>>

(* Plans with a DST-I, a DCT-II and an FFT axis, one and two workers,   *)
(* in place and not, and one whose alpha cancels an eigenvalue.         *)
SeqPlans ==
  { planFor(<<Axis(Dirichlet, 1, 1)>>, 0, DefaultOptions, 1),
    planFor(<<Axis(Neumann, 1, 2)>>, 0,
            [DefaultOptions EXCEPT !.Nullspace = NullspaceSubtractMean], 1),
    planFor(<<Axis(Dirichlet, 1, 1), Axis(Periodic, 2, 1)>>, 0,
            [DefaultOptions EXCEPT !.Workers = 2], 1),
    planFor(<<Axis(Periodic, 2, 1), Axis(Neumann, 1, 1)>>, 0,
            [DefaultOptions EXCEPT !.Workers = 2, !.InPlace = TRUE,
                                   !.SolutionMean = <<3>>], 1),
    planFor(<<Axis(Periodic, 2, 1)>>, -4, DefaultOptions, 1) }

InitSeq ==
  /\ plan \in SeqPlans
  /\ workC = NewWorkspaceComplex(plan)
  /\ workR = NewWorkspaceReal(plan)
  /\ scratch = NewScratch(plan)
  /\ calls = <<>>
  /\ heap = 0
  /\ \E x \in Inputs(planSize(plan)) :
       bufs = [r \in {bufA(1), bufB(1), bufS(1)} |->
                 IF r = bufS(1) THEN x \o <<RZero>> ELSE x]
  /\ call = [c \in Callers |-> idleCall]
  /\ hist = [c \in Callers |-> [bufs0 |-> bufs, log |-> <<>>]]

NextSeq ==
  \E c \in Callers :
    \/ Solve(c)
    \/ SolveInPlace(c)
    \/ SolveWithBC(c)
    \/ TransformWorker(c)
    \/ DivideWorker(c)
    \/ Join(c)
    \/ WriteOut(c)
    \/ Return(c)

SpecSeq == InitSeq /\ [][NextSeq]_vars

(* C11: after any sequence of earlier Solve / SolveInPlace /            *)
(* SolveWithBC calls on a plan, Solve(dst, rhs) returns the error and   *)
(* the dst that the same call returns on a freshly built plan.          *)
C11_SolveAsOnFreshPlan ==
  \A c \in DOMAIN call :
    (Done(c) /\ call[c].op = "Solve") =>
      LET fresh == SeqSolve(plan, call[c].dst = Nil, call[c].rhs = Nil,
                            dst0(c), rhs0(c))
      IN  /\ call[c].err = fresh.err
          /\ call[c].dst # Nil => bufs[call[c].dst] = fresh.dst

(* A successful Solve on a plan whose earlier call left a workspace    *)
(* and a transform scratch that are not those of a fresh plan.          *)
C11_Witness ==
  \E c \in DOMAIN call :
    /\ Done(c) /\ call[c].op = "Solve" /\ call[c].err = OK
    /\ Len(calls) >= 1
    /\ calls[Len(calls)] # NewWorkspaceComplex(plan)
    /\ \E a \in 1..plan.dim :
         /\ plan.bc[a] # Periodic
         /\ scratch[a][1].realBuf
              # newWorkerScratch(plan.bc[a], plan.n[a]).realBuf
    /\ bufs[call[c].dst] # dst0(c)

----------------------------------------------------------------------------
(* Claims on the solution mean and the SubtractMean policy, for one     *)
(* call on a plan.                                                      *)

(* The call stands right after the lift: Forward on axis 0 has been    *)
(* dispatched and none of its workers has run.                          *)
JustLifted(c) ==
  /\ call[c].pc = "forward"
  /\ call[c].axis = 0
  /\ call[c].pending = parallelWorkers(call[c].workers, call[c].tasks)

(* C12: if a solution mean m is configured and the plan has a          *)
(* nullspace, the dst of every successful Solve has mean exactly m; if  *)
(* the plan has no nullspace the option does not change dst.            *)
C12_SolutionMean ==
  \A c \in DOMAIN call :
    (/\ Done(c) /\ IsSolve(c) /\ call[c].err = OK
     /\ plan.opts.SolutionMean # NoMean) =>
      IF NullspacePlan
      THEN meanOf(bufs[call[c].dst]) = R(plan.opts.SolutionMean[1])
      ELSE bufs[call[c].dst]
             = SeqSolve([plan EXCEPT !.opts.SolutionMean = NoMean],
                        FALSE, FALSE, dst0(c), rhs0(c)).dst

(* A successful solve on a two-dimensional plan with a nullspace and a *)
(* configured mean, whose solution is not constant.                     *)
C12_Witness ==
  \E c \in DOMAIN call :
    /\ Done(c) /\ call[c].op = "Solve" /\ call[c].err = OK
    /\ plan.opts.SolutionMean # NoMean /\ NullspacePlan /\ plan.dim = 2
    /\ \E i \in 1..GridSize : bufs[call[c].dst][i] # bufs[call[c].dst][1]

(* rhs with the constant k added to every element. *)
Shifted(x, k) == [i \in 1..Len(x) |-> RAdd(x[i], R(k))]

(* C13: under policy SubtractMean on a plan with a nullspace, Solve    *)
(* lifts rhs with its mean removed, never fails with NonZeroMean, and   *)
(* returns the same dst when a constant is added to every element of    *)
(* rhs.                                                                 *)
C13_SubtractMean ==
  \A c \in DOMAIN call :
    (/\ IsSolve(c) /\ ValidBuffers(c) /\ NullspacePlan
     /\ plan.opts.Nullspace = NullspaceSubtractMean) =>
      /\ JustLifted(c) =>
           workC = [i \in 1..GridSize |->
                      Cx(RSub(rhs0(c)[i], meanOf(rhs0(c))), RZero)]
      /\ Done(c) =>
           /\ call[c].err # ErrNonZeroMean
           /\ \A k \in {-1, 1, 2} :
                LET other == SeqSolve(plan, FALSE, FALSE, dst0(c),
                                      Shifted(rhs0(c), k))
                IN  /\ other.err = call[c].err
                    /\ call[c].err = OK => other.dst = bufs[call[c].dst]

(* A successful solve under SubtractMean of an rhs whose mean exceeds  *)
(* the tolerance.                                                       *)
C13_Witness ==
  \E c \in DOMAIN call :
    /\ Done(c) /\ call[c].op = "Solve" /\ call[c].err = OK
    /\ ValidBuffers(c) /\ NullspacePlan
    /\ plan.opts.Nullspace = NullspaceSubtractMean
    /\ MeanExceeds(rhs0(c))
    /\ bufs[call[c].dst] # dst0(c)

----------------------------------------------------------------------------
(* Claims on what a sequence of calls leaves alone. *)

(* The lengths of the scratch buffers of every axis and worker. *)
scratchLens(s) ==
  [a \in DOMAIN s |->
     [w \in DOMAIN s[a] |->
        [realBuf |-> Len(s[a][w].realBuf), imagBuf |-> Len(s[a][w].imagBuf),
         fftIn |-> Len(s[a][w].fftIn), fftOut |-> Len(s[a][w].fftOut)]]]

(* C14: across any sequence of Solve, SolveInPlace and SolveWithBC     *)
(* calls, failing ones included, no step changes the plan's dim, n, h,  *)
(* bc, eigenvalue tables, alpha or options, nor the length of           *)
(* work.Complex, of work.Real or of a transform's scratch buffer.       *)
C14_PlanImmutable ==
  [][/\ plan' = plan
     /\ Len(workC') = Len(workC)
     /\ Len(workR') = Len(workR)
     /\ scratchLens(scratch') = scratchLens(scratch)]_vars

(* A second call, a SolveWithBC, has returned on a plan whose          *)
(* work.Complex, work.Real and scratch contents all differ from those   *)
(* of a new plan.                                                       *)
C14_Witness ==
  \E c \in DOMAIN call :
    /\ Done(c) /\ call[c].op = "SolveWithBC" /\ call[c].bc # <<>>
    /\ Len(calls) >= 1
    /\ workC # NewWorkspaceComplex(plan)
    /\ workR # NewWorkspaceReal(plan)
    /\ scratch # NewScratch(plan)

(* C15: on a plan that is not in-place, a Solve or SolveWithBC whose   *)
(* dst is not rhs leaves every element of the caller's rhs as it was,   *)
(* at every step of the call and whatever it returns; the boundary      *)
(* patch goes to work.Real, the plan's copy of rhs.                     *)
C15_RhsUnchanged ==
  \A c \in DOMAIN call :
    (/\ call[c].op \in {"Solve", "SolveWithBC"}
     /\ ~plan.opts.InPlace
     /\ call[c].rhs # Nil /\ call[c].dst # call[c].rhs) =>
      /\ bufs[call[c].rhs] = rhs0(c)
      /\ (/\ call[c].op = "SolveWithBC" /\ call[c].bc # <<>>
          /\ ValidBuffers(c)
          /\ validateBoundaryConditions(plan, call[c].bc) = OK) =>
           workR = patchBoundary(plan, rhs0(c), call[c].bc).rhs

(* A successful SolveWithBC on a plan that is not in-place, with dst   *)
(* another buffer than rhs, whose patch changed the copy of rhs.        *)
C15_Witness ==
  \E c \in DOMAIN call :
    /\ Done(c) /\ call[c].op = "SolveWithBC" /\ call[c].err = OK
    /\ ~plan.opts.InPlace
    /\ call[c].rhs # Nil /\ call[c].dst # call[c].rhs
    /\ call[c].bc # <<>>
    /\ workR # rhs0(c)
    /\ bufs[call[c].dst] # dst0(c)

(* C16: SolveInPlace(buf) returns the error, and on success leaves in  *)
(* buf the values, that Solve(dst, rhs) returns and writes to a         *)
(* separate dst of buf's length when rhs holds the initial contents of  *)
(* buf; on plans that are not in-place as well.                         *)
C16_SolveInPlaceAsSolve ==
  \A c \in DOMAIN call :
    (Done(c) /\ call[c].op = "SolveInPlace") =>
      LET separate == SeqSolve(plan, call[c].dst = Nil, call[c].rhs = Nil,
                               [i \in 1..Len(dst0(c)) |-> RZero], rhs0(c))
      IN  /\ call[c].err = separate.err
          /\ call[c].err = OK => bufs[call[c].dst] = separate.dst

(* A successful SolveInPlace on a plan that is not in-place, of a      *)
(* buffer that is not all zero and that the call changed.               *)
C16_Witness ==
  \E c \in DOMAIN call :
    /\ Done(c) /\ call[c].op = "SolveInPlace" /\ call[c].err = OK
    /\ ~plan.opts.InPlace
    /\ \E i \in 1..GridSize : rhs0(c)[i] # RZero
    /\ bufs[call[c].dst] # rhs0(c)

----------------------------------------------------------------------------
(* Plan construction: NewPlan and NewHelmholtzPlan on arbitrary          *)
(* arguments. A float64 argument is finite (an exact rational), NaN,     *)
(* +Inf or -Inf.                                                         *)

Fin(q) == [kind |-> "finite", val |-> q]
NaN == [kind |-> "NaN", val |-> RZero]
PosInf == [kind |-> "+Inf", val |-> RZero]
NegInf == [kind |-> "-Inf", val |-> RZero]

IsFinite(x) == x.kind = "finite"

(* Go's x <= 0 on a float64: false on NaN. *)
leZero(x) ==
  CASE x.kind = "finite" -> RLe(x.val, RZero)
    [] x.kind = "-Inf" -> TRUE
    [] OTHER -> FALSE

(* A BCType value that is none of Periodic, Dirichlet, Neumann. *)
UnknownBC == "BCType(7)"

ErrInvalidSize == "ErrInvalidSize"
ErrInvalidSpacing == "ErrInvalidSpacing"

(* The error a constructor returns: nil, a sentinel, or a              *)
(* *ValidationError with its Field.                                    *)
noError == [err |-> OK, field |-> ""]
sentinel(err) == [err |-> err, field |-> ""]
validationError(field) == [err |-> ValidationError, field |-> field]

(* A variant of validateAxes that checks every size, then every        *)
(* spacing, then every kind.                                           *)
validateAxesKindByKind(dim, n, h, bc) ==
  IF \E a \in 1..dim : n[a] < 1 THEN sentinel(ErrInvalidSize)
  ELSE IF \E a \in 1..dim : leZero(h[a]) THEN sentinel(ErrInvalidSpacing)
  ELSE IF \E a \in 1..dim : bc[a] \notin BCTypes
       THEN validationError("bc[axis]")
  ELSE noError

(* The loop over the axes: size, spacing and kind of axis 0, then of   *)
(* axis 1, then of axis 2.                                             *)
RECURSIVE validateAxesFrom(_, _, _, _, _)
validateAxesFrom(dim, n, h, bc, axis) ==
  IF axis >= dim THEN noError
  ELSE IF n[axis + 1] < 1 THEN sentinel(ErrInvalidSize)
  ELSE IF leZero(h[axis + 1]) THEN sentinel(ErrInvalidSpacing)
  ELSE IF bc[axis + 1] \notin BCTypes THEN validationError("bc[axis]")
  ELSE validateAxesFrom(dim, n, h, bc, axis + 1)

validateAxes(dim, n, h, bc) == validateAxesFrom(dim, n, h, bc, 0)

(* The checks of newPlanWithAlpha, in its order. *)
validateArgs(dim, n, h, bc) ==
  IF dim < 1 \/ dim > 3 THEN validationError("dim")
  ELSE IF Len(n) # dim THEN validationError("n")
  ELSE IF Len(h) # dim THEN validationError("h")
  ELSE IF Len(bc) # dim THEN validationError("bc")
  ELSE validateAxes(dim, n, h, bc)

(* (2 - 2cos(..)) / (h*h) on a spacing that passed h <= 0: NaN on NaN, *)
(* 0 on +Inf, the exact table on h = 1/k.                               *)
eigTableFloat(bc, n, h) ==
  CASE h.kind = "NaN" -> [i \in 1..n |-> NaN]
    [] h.kind = "+Inf" -> [i \in 1..n |-> Fin(RZero)]
    [] OTHER -> [i \in 1..n |-> Fin(eigTable(bc, n, h.val[2])[i])]

(* The plan newPlanWithAlpha returns once its checks have passed. *)
builtPlan(dim, n, h, bc, alpha, options, gomaxprocs) ==
  LET pad(s, d) == [a \in 1..3 |-> IF a <= dim THEN s[a] ELSE d]
  IN  [dim |-> dim,
       n |-> pad(n, 1),
       h |-> pad(h, Fin(R(1))),
       bc |-> pad(bc, Periodic),
       eig |-> [a \in 1..3 |-> IF a <= dim
                               THEN eigTableFloat(bc[a], n[a], h[a])
                               ELSE <<>>],
       alpha |-> alpha,
       opts |-> [options EXCEPT
                   !.Workers = effectiveWorkers(options.Workers, gomaxprocs)]]

(* No plan: the constructor has not run, or returned nil. *)
NoPlan == [dim |-> 0]

(* The lists of length 0..3 that hold d everywhere, or d everywhere    *)
(* but for one element taken from devs.                                 *)
OneOff(d, devs) ==
  UNION {{[i \in 1..len |-> d]}
           \cup {[i \in 1..len |-> IF i = pos THEN v ELSE d] :
                   pos \in 1..len, v \in devs} : len \in 0..3}

DimArgs == 0..4
SizeArgs == OneOff(2, {0})
SpacingArgs == OneOff(Fin(R(1)), {Fin(R(-1)), Fin(RZero), NaN, PosInf, NegInf})
KindArgs == OneOff(Periodic, {Neumann, UnknownBC})
AlphaArgs == {Fin(R(1)), NaN, PosInf, NegInf}
WorkerArgs == {-1, 0, 2}
GoMaxProcsArgs == {1, 2}

(* newPlanWithAlpha(dim, n, h, bc, alpha, WithWorkers(workers)) *)
Construct(c, op, dim, n, h, bc, alpha, workers, gomaxprocs) ==
  LET res == validateArgs(dim, n, h, bc)
      p == builtPlan(dim, n, h, bc, alpha,
                     [DefaultOptions EXCEPT !.Workers = workers], gomaxprocs)
  IN  /\ call' = [call EXCEPT ![c] =
                    [op |-> op, pc |-> "done", err |-> res.err,
                     field |-> res.field, dim |-> dim, n |-> n, h |-> h,
                     bc |-> bc, alpha |-> alpha, workers |-> workers,
                     gomaxprocs |-> gomaxprocs]]
      /\ IF res.err = OK
         THEN /\ plan' = p
              /\ workC' = NewWorkspaceComplex(p)
              /\ workR' = NewWorkspaceReal(p)
              /\ scratch' = NewScratch(p)
         ELSE UNCHANGED <<plan, workC, workR, scratch>>
      /\ UNCHANGED <<bufs, hist, calls, heap>>

(* NewPlan(dim, n, h, bc, WithWorkers(workers)) *)
NewPlan(c) ==
  /\ call[c].pc = "idle"
  /\ \E dim \in DimArgs, n \in SizeArgs, h \in SpacingArgs, bc \in KindArgs,
        workers \in WorkerArgs, gomaxprocs \in GoMaxProcsArgs :
       Construct(c, "NewPlan", dim, n, h, bc, Fin(RZero), workers,
                 gomaxprocs)

(* NewHelmholtzPlan(dim, n, h, bc, alpha) *)
NewHelmholtzPlan(c) ==
  /\ call[c].pc = "idle"
  /\ \E dim \in DimArgs, n \in SizeArgs, h \in SpacingArgs, bc \in KindArgs,
        alpha \in AlphaArgs :
       Construct(c, "NewHelmholtzPlan", dim, n, h, bc, alpha, 0, 1)

InitNew ==
  /\ plan = NoPlan
  /\ workC = <<>>
  /\ workR = <<>>
  /\ scratch = <<>>
  /\ bufs = <<>>
  /\ calls = <<>>
  /\ heap = 0
  /\ call = [c \in Callers |-> idleCall]
  /\ hist = [c \in Callers |-> [bufs0 |-> bufs, log |-> <<>>]]

NextNew ==
  \E c \in Callers :
    \/ NewPlan(c)
    \/ NewHelmholtzPlan(c)

SpecNew == InitNew /\ [][NextNew]_vars

(* The constructor has returned to caller c. *)
Constructed(c) == call[c].op \in {"NewPlan", "NewHelmholtzPlan"}

(* C17: plan construction checks, in this order, dim in 1..3, the      *)
(* length of n, the length of h, the length of bc against dim, and then *)
(* axis by axis, in increasing order, the axis's size >= 1, its spacing *)
(* not <= 0, its kind recognised; it returns the failure of the first   *)
(* check that fails, and a plan when none does.                         *)
C17_FirstFailingCheckInCodeOrder ==
  \A c \in DOMAIN call :
    Constructed(c) =>
      LET a == call[c]
          bad(x) == \/ a.n[x] < 1
                    \/ leZero(a.h[x])
                    \/ a.bc[x] \notin BCTypes
          first == CHOOSE x \in 1..a.dim :
                     bad(x) /\ \A y \in 1..(x - 1) : ~bad(y)
      IN  IF a.dim \notin 1..3
          THEN a.err = ValidationError /\ a.field = "dim"
          ELSE IF Len(a.n) # a.dim
          THEN a.err = ValidationError /\ a.field = "n"
          ELSE IF Len(a.h) # a.dim
          THEN a.err = ValidationError /\ a.field = "h"
          ELSE IF Len(a.bc) # a.dim
          THEN a.err = ValidationError /\ a.field = "bc"
          ELSE IF \A x \in 1..a.dim : ~bad(x)
          THEN a.err = OK /\ plan # NoPlan
          ELSE IF a.n[first] < 1 THEN a.err = ErrInvalidSize
          ELSE IF leZero(a.h[first]) THEN a.err = ErrInvalidSpacing
          ELSE a.err = ValidationError /\ a.field = "bc[axis]"

(* The constructor was given two axes, the earlier with a spacing <= 0 *)
(* and the later with a size < 1, and returned ErrInvalidSpacing.       *)
C17_Witness ==
  \E c \in DOMAIN call :
    /\ Constructed(c)
    /\ call[c].dim = 2
    /\ Len(call[c].n) = 2 /\ Len(call[c].h) = 2 /\ Len(call[c].bc) = 2
    /\ leZero(call[c].h[1]) /\ call[c].n[2] < 1
    /\ call[c].err = ErrInvalidSpacing

(* The check each failure comes from, numbered as the checks (1) dim,  *)
(* (2) sizes, (3) spacings, (4) kinds, (5) lengths; 0 is success.       *)
checkOf(err, field) ==
  CASE err = OK -> 0
    [] err = ErrInvalidSize -> 2
    [] err = ErrInvalidSpacing -> 3
    [] err = ValidationError /\ field = "dim" -> 1
    [] err = ValidationError /\ field = "bc[axis]" -> 4
    [] OTHER -> 5

(* C17 as stated: the failure is that of the first failing check in    *)
(* the order (1) dim in 1..3, (2) every size >= 1, (3) every spacing    *)
(* > 0 and finite, (4) every kind recognised, (5) the lengths of the    *)
(* three arrays equal dim.                                              *)
C17_FirstFailingCheckInSpecOrder ==
  \A c \in DOMAIN call :
    Constructed(c) =>
      LET a == call[c]
          expected ==
            IF a.dim \notin 1..3 THEN 1
            ELSE IF \E x \in 1..Len(a.n) : a.n[x] < 1 THEN 2
            ELSE IF \E x \in 1..Len(a.h) :
                      ~IsFinite(a.h[x]) \/ leZero(a.h[x]) THEN 3
            ELSE IF \E x \in 1..Len(a.bc) : a.bc[x] \notin BCTypes THEN 4
            ELSE IF Len(a.n) # a.dim \/ Len(a.h) # a.dim
                    \/ Len(a.bc) # a.dim THEN 5
            ELSE 0
      IN  checkOf(a.err, a.field) = expected

(* Every check but the spacings' passes. *)
OnlySpacingsToCheck(a) ==
  /\ a.dim \in 1..3
  /\ Len(a.n) = a.dim /\ Len(a.h) = a.dim /\ Len(a.bc) = a.dim
  /\ \A x \in 1..a.dim : a.n[x] >= 1 /\ a.bc[x] \in BCTypes

(* C18: NewPlan and NewHelmholtzPlan fail with ErrInvalidSpacing       *)
(* whenever one of the dim spacings is <= 0, NaN or infinite, so the    *)
(* spacings of every constructed plan are finite and positive.          *)
C18_NonFiniteSpacingRejected ==
  \A c \in DOMAIN call :
    Constructed(c) =>
      /\ (/\ OnlySpacingsToCheck(call[c])
          /\ \E x \in 1..call[c].dim :
               ~IsFinite(call[c].h[x]) \/ leZero(call[c].h[x]))
           => call[c].err = ErrInvalidSpacing
      /\ call[c].err = OK =>
           \A x \in 1..plan.dim :
             IsFinite(plan.h[x]) /\ ~leZero(plan.h[x])

(* C19: every constructed plan has a finite alpha; NewHelmholtzPlan    *)
(* returns no plan when alpha is NaN or infinite.                       *)
C19_PlanAlphaFinite ==
  \A c \in DOMAIN call :
    Constructed(c) =>
      /\ plan # NoPlan => IsFinite(plan.alpha)
      /\ ~IsFinite(call[c].alpha) => call[c].err # OK /\ plan = NoPlan

(* C20: the worker count stored in a constructed plan is >= 1: a       *)
(* request <= 0 resolves to GOMAXPROCS(0), a request r > 0 to r.        *)
C20_WorkersResolved ==
  \A c \in DOMAIN call :
    (Constructed(c) /\ call[c].err = OK) =>
      /\ plan.opts.Workers >= 1
      /\ plan.opts.Workers = IF call[c].workers <= 0 THEN call[c].gomaxprocs
                             ELSE call[c].workers

(* A plan built on a request of -1 workers where GOMAXPROCS(0) is 2.   *)
C20_Witness ==
  \E c \in DOMAIN call :
    /\ Constructed(c) /\ call[c].err = OK
    /\ call[c].workers < 0 /\ call[c].gomaxprocs = 2
    /\ plan.opts.Workers = 2

(* C20 as stated: a request of 0 resolves to GOMAXPROCS(0), any other  *)
(* request r, a negative one included, to max(r, 1).                    *)
C20_WorkersMaxOfRequest ==
  \A c \in DOMAIN call :
    (Constructed(c) /\ call[c].err = OK) =>
      /\ plan.opts.Workers >= 1
      /\ plan.opts.Workers = IF call[c].workers = 0 THEN call[c].gomaxprocs
                             ELSE IF call[c].workers > 1 THEN call[c].workers
                             ELSE 1

----------------------------------------------------------------------------
(* Claims on the boundary data of SolveWithBC. *)

(* The errors the boundary checks and patches return. *)
BoundaryErrors == {ValidationError, SizeError}

(* A datum that is out of the plan's dim, on a Periodic axis, of       *)
(* another kind than the plan's axis, or of the wrong length.           *)
datumInvalid(p, data) ==
  \/ faceAxis(data.Face) < 0
  \/ faceAxis(data.Face) >= p.dim
  \/ p.bc[faceAxis(data.Face) + 1] = Periodic
  \/ p.bc[faceAxis(data.Face) + 1] # data.Type
  \/ Len(data.Values) # expectedFace(planShape(p), data.Face)

(* C21: SolveWithBC rejects boundary data with a boundary error if and *)
(* only if some datum's face axis is >= dim, the plan's axis is         *)
(* Periodic, the datum's kind is not the axis's kind, or its values     *)
(* have the wrong length; a face on an axis < dim is accepted also      *)
(* when that axis has size 1.                                           *)
C21_BoundaryDatumRejectedIff ==
  \A c \in DOMAIN call :
    (/\ Done(c) /\ call[c].op = "SolveWithBC" /\ ValidBuffers(c)
     /\ call[c].bc # <<>>) =>
      (call[c].err \in BoundaryErrors
         <=> \E m \in 1..Len(call[c].bc) : datumInvalid(plan, call[c].bc[m]))

----------------------------------------------------------------------------
(* Claims on allocation. heap counts the slices allocated since the    *)
(* current call began.                                                  *)

(* C22: on a constructed in-place plan, a Solve or SolveInPlace call   *)
(* allocates nothing, whatever the kinds of the axes and the worker     *)
(* count.                                                               *)
C22_SolveNoAllocation ==
  \A c \in DOMAIN call :
    (call[c].op \in {"Solve", "SolveInPlace"} /\ plan.opts.InPlace) =>
      heap = 0

----------------------------------------------------------------------------
(* The transforms on lines whose coefficients are not rational: DST-I  *)
(* of length 2 and 3, DCT-II of length 2. A real number is a + b*sqrt(d) *)
(* with a, b rational, written <<a, b>>; d is 3 where the backing FFT    *)
(* has length 6 and 2 elsewhere. A complex number is <<re, im>>.         *)

surdOf(fftLen) == IF fftLen = 6 THEN 3 ELSE 2

S(q) == <<q, RZero>>
SZero == S(RZero)
SAdd(x, y) == <<RAdd(x[1], y[1]), RAdd(x[2], y[2])>>
SNeg(x) == <<RNeg(x[1]), RNeg(x[2])>>
SScale(q, x) == <<RMul(q, x[1]), RMul(q, x[2])>>
SMul(d, x, y) ==
  <<RAdd(RMul(x[1], y[1]), RMul(R(d), RMul(x[2], y[2]))),
    RAdd(RMul(x[1], y[2]), RMul(x[2], y[1]))>>

ZZero == <<SZero, SZero>>
ZAdd(z, w) == <<SAdd(z[1], w[1]), SAdd(z[2], w[2])>>
ZScale(q, z) == <<SScale(q, z[1]), SScale(q, z[2])>>
ZMul(d, z, w) ==
  <<SAdd(SMul(d, z[1], w[1]), SNeg(SMul(d, z[2], w[2]))),
    SAdd(SMul(d, z[1], w[2]), SMul(d, z[2], w[1]))>>

RECURSIVE ZSumSeq(_, _)
ZSumSeq(s, n) == IF n = 0 THEN ZZero ELSE ZAdd(ZSumSeq(s, n - 1), s[n])

(* exp(-2*pi*i*m/len) for len = 4, 6, 8. *)
unitRoot(len, m) ==
  LET one == S(R(1))
      half == S(Norm(1, 2))
      rt == <<RZero, Norm(1, 2)>>
  IN  CASE len = 4 ->
             (CASE m % 4 = 0 -> <<one, SZero>>
                [] m % 4 = 1 -> <<SZero, SNeg(one)>>
                [] m % 4 = 2 -> <<SNeg(one), SZero>>
                [] OTHER -> <<SZero, one>>)
        [] len = 6 ->
             (CASE m % 6 = 0 -> <<one, SZero>>
                [] m % 6 = 1 -> <<half, SNeg(rt)>>
                [] m % 6 = 2 -> <<SNeg(half), SNeg(rt)>>
                [] m % 6 = 3 -> <<SNeg(one), SZero>>
                [] m % 6 = 4 -> <<SNeg(half), rt>>
                [] OTHER -> <<half, rt>>)
        [] len = 8 ->
             (CASE m % 8 = 0 -> <<one, SZero>>
                [] m % 8 = 1 -> <<rt, SNeg(rt)>>
                [] m % 8 = 2 -> <<SZero, SNeg(one)>>
                [] m % 8 = 3 -> <<SNeg(rt), SNeg(rt)>>
                [] m % 8 = 4 -> <<SNeg(one), SZero>>
                [] m % 8 = 5 -> <<SNeg(rt), rt>>
                [] m % 8 = 6 -> <<SZero, one>>
                [] OTHER -> <<rt, rt>>)

(* The table the roots of a length are read from: 1, 2, 4 -> 4. *)
rootTable(len) == IF len \in {1, 2, 4} THEN 4 ELSE len

(* The backing FFT of length 1, 2, 4, 6, 8: the unnormalised DFT, and  *)
(* the conjugate DFT divided by the length.                             *)
fftForward(x) ==
  LET n == Len(x)
      t == rootTable(n)
      terms(k) == [j \in 1..n |->
                     ZMul(surdOf(n), x[j],
                          unitRoot(t, (t \div n) * (j - 1) * (k - 1)))]
  IN  [k \in 1..n |-> ZSumSeq(terms(k), n)]

fftInverse(x) ==
  LET n == Len(x)
      t == rootTable(n)
      terms(k) == [j \in 1..n |->
                     ZMul(surdOf(n), x[j],
                          unitRoot(t, t * n - (t \div n) * (j - 1) * (k - 1)))]
  IN  [k \in 1..n |-> ZScale(Norm(1, n), ZSumSeq(terms(k), n))]

(* DSTPlan.Forward on a real line: odd extension, FFT, -Im/2. *)
dstPlanForward(src) ==
  LET n == Len(src)
      extendedN == 2 * (n + 1)
      fftIn == [j \in 1..extendedN |->
                  IF 1 <= j - 1 /\ j - 1 <= n THEN <<src[j - 1], SZero>>
                  ELSE IF j - 1 >= extendedN - n
                       THEN <<SNeg(src[extendedN - (j - 1)]), SZero>>
                       ELSE ZZero]
      fftOut == fftForward(fftIn)
  IN  [k \in 1..n |-> SScale(Norm(-1, 2), fftOut[k + 1][2])]

(* DSTPlan.Inverse: Forward, then every element times 2/(N+1). *)
dstPlanInverse(src) ==
  LET f == dstPlanForward(src)
  IN  [i \in 1..Len(src) |-> SScale(Norm(2, Len(src) + 1), f[i])]

(* DCT2Plan.Forward: even extension, FFT, Re(out[k] * phase[k]) / 2    *)
(* with phase[k] = exp(-i*pi*k/(2N)).                                   *)
dct2PlanForward(src) ==
  LET n == Len(src)
      extendedN == 2 * n
      fftIn == [j \in 1..extendedN |->
                  IF j <= n THEN <<src[j], SZero>>
                  ELSE <<src[extendedN - (j - 1)], SZero>>]
      fftOut == fftForward(fftIn)
      phase(k) == unitRoot(rootTable(4 * n), (rootTable(4 * n) \div (4 * n)) * k)
  IN  [k \in 1..n |->
         SScale(Norm(1, 2), ZMul(2, fftOut[k], phase(k - 1))[1])]

(* DCT2Coefficient(n, k, size) = cos(pi*(n + 1/2)*k/size). *)
dct2Coefficient(n, k, size) ==
  unitRoot(rootTable(4 * size),
           (rootTable(4 * size) \div (4 * size)) * (2 * n + 1) * k)[1]

RECURSIVE SSumSeq(_, _)
SSumSeq(s, n) == IF n = 0 THEN SZero ELSE SAdd(SSumSeq(s, n - 1), s[n])

(* DCT2Plan.Inverse: the weighted transpose of the DCT-II kernel. *)
dct2PlanInverse(src) ==
  LET n == Len(src)
      weight(k) == IF k = 0 THEN Norm(1, n) ELSE Norm(2, n)
      terms(i) == [k \in 1..n |->
                     SMul(2, SScale(weight(k - 1), src[k]),
                          dct2Coefficient(i - 1, k - 1, n))]
  IN  [i \in 1..n |-> SSumSeq(terms(i), n)]

(* The transformLine of an axis transform on a complex line: the FFT,  *)
(* or the real plan on the real and on the imaginary parts.             *)
axisTransformLine(bc, x, inverse) ==
  LET re == [t \in 1..Len(x) |-> x[t][1]]
      im == [t \in 1..Len(x) |-> x[t][2]]
      join(a, b) == [t \in 1..Len(x) |-> <<a[t], b[t]>>]
  IN  CASE bc = Periodic ->
             IF inverse THEN fftInverse(x) ELSE fftForward(x)
        [] bc = Dirichlet ->
             IF inverse THEN join(dstPlanInverse(re), dstPlanInverse(im))
             ELSE join(dstPlanForward(re), dstPlanForward(im))
        [] bc = Neumann ->
             IF inverse THEN join(dct2PlanInverse(re), dct2PlanInverse(im))
             ELSE join(dct2PlanForward(re), dct2PlanForward(im))

(* NormalizationFactor() of the axis transform of a kind and length. *)
NormalizationFactor(bc, n) ==
  IF bc = Dirichlet THEN Norm(n + 1, 2) ELSE R(1)

(* The axis transforms and the lines they are run on: elements 0, 1,   *)
(* -2 and i.                                                            *)
AxisLengths(bc) ==
  CASE bc = Periodic -> {1, 2, 4}
    [] bc = Dirichlet -> {1, 2, 3}
    [] bc = Neumann -> {1, 2}

LineValues ==
  {ZZero, <<S(R(1)), SZero>>, <<S(R(-2)), SZero>>, <<SZero, S(R(1))>>}

(* Forward along the axis of a one-dimensional buffer. *)
AxisForward(c) ==
  /\ call[c].pc = "idle"
  /\ workC' = axisTransformLine(plan.bc, workC, FALSE)
  /\ call' = [call EXCEPT ![c].pc = "forward"]
  /\ UNCHANGED <<plan, workR, scratch, bufs, hist, calls, heap>>

(* Inverse along the same axis. *)
AxisInverse(c) ==
  /\ call[c].pc = "forward"
  /\ workC' = axisTransformLine(plan.bc, workC, TRUE)
  /\ call' = [call EXCEPT ![c].pc = "done"]
  /\ UNCHANGED <<plan, workR, scratch, bufs, hist, calls, heap>>

InitAxis ==
  /\ \E bc \in BCTypes : \E n \in AxisLengths(bc) :
       /\ plan = [bc |-> bc, n |-> n]
       /\ workC \in [1..n -> LineValues]
  /\ workR = <<>>
  /\ scratch = <<>>
  /\ bufs = <<>>
  /\ calls = <<>>
  /\ heap = 0
  /\ call = [c \in Callers |-> [pc |-> "idle", line |-> workC]]
  /\ hist = [c \in Callers |-> [bufs0 |-> bufs, log |-> <<>>]]

NextAxis ==
  \E c \in Callers :
    \/ AxisForward(c)
    \/ AxisInverse(c)

SpecAxis == InitAxis /\ [][NextAxis]_vars

(* C23: Forward and then Inverse along an axis scales the buffer by    *)
(* the transform's NormalizationFactor: 1 for the FFT, (N+1)/2 for      *)
(* DST-I, 1 for DCT-II.                                                 *)
C23_RoundTripScalesByFactor ==
  \A c \in DOMAIN call :
    call[c].pc = "done" =>
      workC = [t \in 1..plan.n |->
                 ZScale(NormalizationFactor(plan.bc, plan.n),
                        call[c].line[t])]

----------------------------------------------------------------------------
(* parallelFor(workers, tasks, fn) on its own, for every worker and    *)
(* task count, with a body fn that counts its visits of each index in   *)
(* workC and may fail at any index of its range.                        *)

MaxTasks == 4
MaxFor == 3

FnError == "fn error"

(* A variant of forWaitOver in which the wait also ends on an error. *)
forWaitOverOrError(pending, err) == pending = {} \/ err # OK

(* wg.Wait() returns once every goroutine added has called wg.Done(),  *)
(* whatever err holds.                                                  *)
forWaitOver(pending, err) == pending = {}

(* The state of one parallelFor call: the goroutines started and not   *)
(* yet done, those done, and the error errOnce has kept.                *)
forCall(pc, workers, tasks, pending, finished, secErr, err) ==
  [pc |-> pc, workers |-> workers, tasks |-> tasks, pending |-> pending,
   finished |-> finished, secErr |-> secErr, err |-> err]

(* The call enters parallelFor: it returns nil on tasks <= 0, runs fn  *)
(* in-thread, or starts one goroutine per chunk.                        *)
ForBegin(c) ==
  /\ call[c].pc = "idle"
  /\ call' = [call EXCEPT ![c] =
                IF call[c].tasks <= 0
                THEN [@ EXCEPT !.pc = "returned"]
                ELSE [@ EXCEPT !.pc = "running",
                               !.pending = parallelWorkers(call[c].workers,
                                                            call[c].tasks)]]
  /\ UNCHANGED <<plan, workC, workR, scratch, bufs, hist, calls, heap>>

(* fn(worker, start, end) visits its indices up to the one it fails at *)
(* (all of them when it does not fail); errOnce keeps the first error.  *)
ForWorker(c) ==
  /\ call[c].pc \in {"running", "returned"}
  /\ \E w \in call[c].pending :
       LET start == parallelStart(call[c].workers, call[c].tasks, w)
           end == parallelEnd(call[c].workers, call[c].tasks, w)
       IN  \E stop \in start..end :
             /\ workC' = [i \in 1..Len(workC) |->
                            IF start <= i - 1 /\ i - 1 < stop
                            THEN workC[i] + 1 ELSE workC[i]]
             /\ call' = [call EXCEPT
                           ![c].pending = @ \ {w},
                           ![c].finished = @ \cup {w},
                           ![c].secErr = IF @ = OK /\ stop < end
                                         THEN FnError ELSE @]
  /\ UNCHANGED <<plan, workR, scratch, bufs, hist, calls, heap>>

(* wg.Wait() is over (or the in-thread fn has returned): return err. *)
ForReturn(c) ==
  /\ call[c].pc = "running"
  /\ forWaitOver(call[c].pending, call[c].secErr)
  /\ call' = [call EXCEPT ![c].pc = "returned", ![c].err = call[c].secErr]
  /\ UNCHANGED <<plan, workC, workR, scratch, bufs, hist, calls, heap>>

InitFor ==
  /\ \E workers \in 0..MaxFor, tasks \in 0..MaxTasks :
       /\ call = [c \in Callers |->
                    forCall("idle", workers, tasks, {}, {}, OK, OK)]
       /\ workC = [i \in 1..tasks |-> 0]
  /\ plan = NoPlan
  /\ workR = <<>>
  /\ scratch = <<>>
  /\ bufs = <<>>
  /\ calls = <<>>
  /\ heap = 0
  /\ hist = [c \in Callers |-> [bufs0 |-> bufs, log |-> <<>>]]

NextFor ==
  \E c \in Callers :
    \/ ForBegin(c)
    \/ ForWorker(c)
    \/ ForReturn(c)

SpecFor == InitFor /\ [][NextFor]_vars

(* The indices of the range parallelFor hands to worker w. *)
forRange(workers, tasks, w) ==
  parallelStart(workers, tasks, w)..(parallelEnd(workers, tasks, w) - 1)

(* C24: for tasks >= 1 and workers >= 1, the ranges parallelFor hands  *)
(* out are non-empty, contiguous, pairwise disjoint and together        *)
(* exactly [0, tasks); when no fn fails, every index has been visited   *)
(* exactly once at the return.                                          *)
C24_RangesPartitionTasks ==
  \A c \in DOMAIN call :
    (/\ call[c].pc # "idle" /\ call[c].tasks >= 1 /\ call[c].workers >= 1) =>
      LET W == call[c].workers
          T == call[c].tasks
          ids == parallelWorkers(W, T)
      IN  /\ \A w \in ids : forRange(W, T, w) # {}
          /\ \A w \in ids : \A v \in ids :
               w # v => forRange(W, T, w) \cap forRange(W, T, v) = {}
          /\ UNION {forRange(W, T, w) : w \in ids} = 0..(T - 1)
          /\ \A w \in ids :
               w + 1 \in ids =>
                 parallelStart(W, T, w + 1) = parallelEnd(W, T, w)
          /\ (call[c].pc = "returned" /\ call[c].err = OK) =>
               workC = [i \in 1..T |-> 1]

(* A successful parallelFor of 4 tasks on 3 workers: chunk is 2, the   *)
(* third goroutine is never started and two chunks cover the indices.   *)
C24_Witness ==
  \E c \in DOMAIN call :
    /\ call[c].pc = "returned" /\ call[c].err = OK
    /\ call[c].tasks = 4 /\ call[c].workers = 3
    /\ call[c].finished = {0, 1}
    /\ workC = <<1, 1, 1, 1>>

(* C25: parallelFor returns only after every goroutine it started has *)
(* finished, also when one of them returned an error; after the return  *)
(* no goroutine is left to touch the buffer.                            *)
C25_ReturnAfterWorkers ==
  \A c \in DOMAIN call :
    (call[c].pc = "returned" /\ call[c].tasks >= 1) =>
      /\ call[c].pending = {}
      /\ call[c].finished = parallelWorkers(call[c].workers, call[c].tasks)

(* parallelFor has returned the error of a goroutine that failed while *)
(* another was still running.                                           *)
C25_Witness ==
  \E c \in DOMAIN call :
    /\ call[c].pc = "returned" /\ call[c].err = FnError
    /\ Cardinality(call[c].finished) >= 2
    /\ \E i \in 1..Len(workC) : workC[i] = 1

----------------------------------------------------------------------------
(* C26: while a line-wise transform is in its parallelFor, the worker  *)
(* indices handed to the running bodies are pairwise distinct (one per  *)
(* chunk) and each is smaller than the number of per-worker sub-plans   *)
(* and scratch buffers of the axis, whatever the worker count and the   *)
(* number of lines.                                                     *)
C26_WorkerIndexInRange ==
  \A c \in DOMAIN call :
    (call[c].op \in {"Solve", "SolveInPlace", "SolveWithBC"}
     /\ call[c].pc \in {"forward", "inverse"}) =>
      LET ids == parallelWorkers(call[c].workers, call[c].tasks)
      IN  /\ call[c].pending \subseteq ids
          /\ \A w \in ids :
               /\ 0 <= w
               /\ w < Len(scratch[call[c].axis + 1])
               /\ w < plan.opts.Workers
          /\ \A w \in ids : \A v \in ids :
               w # v => parallelStart(call[c].workers, call[c].tasks, w)
                          # parallelStart(call[c].workers, call[c].tasks, v)

(* A transform of two lines on a plan of three workers with both of   *)
(* its goroutines still running.                                        *)
C26_Witness ==
  \E c \in DOMAIN call :
    /\ call[c].pc \in {"forward", "inverse"}
    /\ plan.opts.Workers = 3
    /\ call[c].tasks = 2
    /\ call[c].pending = {0, 1}

----------------------------------------------------------------------------
(* Line enumeration on its own: the LineIterator of grid and the closed *)
(* form lineCount / lineStartIndex, for every shape and axis.            *)

MaxSide == 3

(* NewLineIterator(shape, axis): the two other axes in increasing      *)
(* order with their sizes, then the two lower-dimension overrides.      *)
NewLineIterator(shape, axis) ==
  LET other == otherAxes(axis)
      max0 == shape[other[1] + 1]
      max1 == shape[other[2] + 1]
  IN  [shape |-> shape, stride |-> RowMajorStride(shape), axis |-> axis,
       pos |-> <<0, 0>>,
       max |-> <<IF ShapeDim(shape) < 2 /\ axis # 1 THEN 1 ELSE max0,
                 IF ShapeDim(shape) < 3 /\ axis # 2 THEN 1 ELSE max1>>,
       other |-> other, done |-> FALSE]

(* LineIterator.Next: the iterator it leaves and the bool it returns. *)
LineIteratorNext(it) ==
  IF it.done THEN [it |-> it, ok |-> FALSE]
  ELSE IF it.pos[1] + 1 >= it.max[1]
       THEN IF it.pos[2] + 1 >= it.max[2]
            THEN [it |-> [it EXCEPT !.pos = <<0, it.pos[2] + 1>>,
                                    !.done = TRUE],
                  ok |-> FALSE]
            ELSE [it |-> [it EXCEPT !.pos = <<0, it.pos[2] + 1>>],
                  ok |-> TRUE]
       ELSE [it |-> [it EXCEPT !.pos = <<it.pos[1] + 1, it.pos[2]>>],
             ok |-> TRUE]

(* LineIterator.StartIndex: Index(coords, stride) with the axis at 0. *)
StartIndex(it) ==
  it.pos[1] * it.stride[it.other[1] + 1]
    + it.pos[2] * it.stride[it.other[2] + 1]

(* LineIterator.NumLines: the product of the positive other sizes. *)
NumLines(it) ==
  LET f(d) == IF d # it.axis /\ it.shape[d + 1] > 0
              THEN it.shape[d + 1] ELSE 1
  IN  f(0) * f(1) * f(2)

(* it := NewLineIterator(shape, axis), and the first line, at the     *)
(* iterator's starting position, is visited; the closed form lists its  *)
(* lineCount start indices.                                             *)
LinesBegin(c) ==
  /\ call[c].pc = "idle"
  /\ LET it == NewLineIterator(call[c].shape, call[c].axis)
     IN  call' = [call EXCEPT
                    ![c].pc = "iterating",
                    ![c].it = it,
                    ![c].starts = <<StartIndex(it)>>,
                    ![c].closed =
                      [l \in 1..lineCount(call[c].shape, call[c].axis) |->
                         lineStartIndex(call[c].shape, call[c].axis, l - 1)]]
  /\ UNCHANGED <<plan, workC, workR, scratch, bufs, hist, calls, heap>>

(* for it.Next() { visit it.StartIndex() } *)
LinesNext(c) ==
  /\ call[c].pc = "iterating"
  /\ LET r == LineIteratorNext(call[c].it)
     IN  call' = [call EXCEPT
                    ![c].it = r.it,
                    ![c].pc = IF r.ok THEN "iterating" ELSE "done",
                    ![c].starts = IF r.ok THEN Append(@, StartIndex(r.it))
                                  ELSE @]
  /\ UNCHANGED <<plan, workC, workR, scratch, bufs, hist, calls, heap>>

InitLines ==
  /\ \E nx \in 1..MaxSide, ny \in 1..MaxSide, nz \in 1..MaxSide,
        axis \in 0..2 :
       call = [c \in Callers |->
                 [pc |-> "idle", shape |-> <<nx, ny, nz>>, axis |-> axis,
                  it |-> Nil, starts |-> <<>>, closed |-> <<>>]]
  /\ plan = NoPlan
  /\ workC = <<>>
  /\ workR = <<>>
  /\ scratch = <<>>
  /\ bufs = <<>>
  /\ calls = <<>>
  /\ heap = 0
  /\ hist = [c \in Callers |-> [bufs0 |-> bufs, log |-> <<>>]]

NextLines ==
  \E c \in Callers :
    \/ LinesBegin(c)
    \/ LinesNext(c)

SpecLines == InitLines /\ [][NextLines]_vars

(* The indices of the line of the axis that starts at start. *)
lineSet(shape, axis, start) ==
  {start + j * RowMajorStride(shape)[axis + 1] :
     j \in 0..(ShapeN(shape, axis) - 1)}

(* The lines starting at starts are as many as the product of the     *)
(* other two sizes, pairwise disjoint, and cover [0, nx*ny*nz).         *)
linesPartition(shape, axis, starts) ==
  /\ Len(starts) = shape[otherAxes(axis)[1] + 1] * shape[otherAxes(axis)[2] + 1]
  /\ \A i \in 1..Len(starts) : \A j \in 1..Len(starts) :
       i # j => lineSet(shape, axis, starts[i])
                  \cap lineSet(shape, axis, starts[j]) = {}
  /\ UNION {lineSet(shape, axis, starts[i]) : i \in 1..Len(starts)}
       = 0..(ShapeSize(shape) - 1)

(* C27: for every shape and axis the enumeration of the lines yields   *)
(* exactly (product of the other two sizes) lines whose index sets are  *)
(* pairwise disjoint and cover the grid, for the closed form and for    *)
(* the LineIterator, whose number of visited lines equals NumLines().   *)
C27_LinesPartitionGrid ==
  \A c \in DOMAIN call :
    call[c].pc = "done" =>
      /\ linesPartition(call[c].shape, call[c].axis, call[c].closed)
      /\ linesPartition(call[c].shape, call[c].axis, call[c].starts)
      /\ Len(call[c].starts) = NumLines(call[c].it)

----------------------------------------------------------------------------
(* Termination, on the plans of SeqPlans and call after call. Every   *)
(* goroutine parallelFor starts is scheduled, and the calling thread    *)
(* runs on when wg.Wait() lets it: weak fairness of each step of a call *)
(* that has begun. Whether a caller calls at all is left open.          *)
(* What a TransformWorker step does to the call: a goroutine of the   *)
(* transform's parallelFor returns from fn and calls wg.Done().         *)
workerFinishes(c) ==
  /\ call[c].pc \in {"forward", "inverse"}
  /\ \E w \in call[c].pending :
       call' = [call EXCEPT ![c].pending = @ \ {w}]

SpecLive ==
  /\ InitSeq
  /\ [][NextSeq]_vars
  /\ \A c \in Callers :
       /\ WF_call(workerFinishes(c))
       /\ WF_vars(DivideWorker(c))
       /\ WF_vars(Join(c))
       /\ WF_vars(WriteOut(c))

(* C28: every Solve, SolveInPlace and SolveWithBC call that has begun  *)
(* returns, with success or with an error, after finitely many steps;   *)
(* no parallel section is left waiting forever.                         *)
C28_SolveReturns ==
  \A c \in Callers : (call[c].pc # "idle") ~> Done(c)

(* A second call on a plan of two workers has run its parallel        *)
(* sections and returned without error.                                 *)
C28_Witness ==
  \E c \in DOMAIN call :
    /\ Done(c) /\ call[c].err = OK
    /\ plan.opts.Workers = 2 /\ Len(calls) = 1
    /\ \E k \in 1..Len(hist[c].log) : hist[c].log[k].op = "inverse"

----------------------------------------------------------------------------
(* Pure Poisson plans (alpha = 0), among them plans whose spacing h is *)
(* so large that h2 := h * h is +Inf in float64 (any h >= 2^512, 1e200  *)
(* say: finite and positive, so newPlanWithAlpha accepts it). Every     *)
(* eigenvalue (2 - 2cos(..)) / h2 of such an axis is then 0, and so is  *)
(* 1 / (h * h): the reciprocal spacing k = 0 stands for these h.        *)
PoissonShapes ==
  Shapes \cup { <<Axis(Dirichlet, 1, 0)>>, <<Axis(Periodic, 2, 0)>>,
                <<Axis(Dirichlet, 1, 0), Axis(Periodic, 2, 1)>> }

PoissonPlans ==
  {planFor(cfg.axes, 0, cfg.options, 1) :
     cfg \in [axes : PoissonShapes,
              options : {[DefaultOptions EXCEPT !.Nullspace = ns,
                                                !.Workers = w] :
                           ns \in {NullspaceZeroMode, NullspaceSubtractMean},
                           w \in 1..2}]}

InitPoisson ==
  /\ plan \in PoissonPlans
  /\ workC = NewWorkspaceComplex(plan)
  /\ workR = NewWorkspaceReal(plan)
  /\ scratch = NewScratch(plan)
  /\ calls = <<>>
  /\ heap = 0
  /\ \E x \in Inputs(planSize(plan)) :
       bufs = [r \in {bufA(1), bufB(1), bufS(1)} |->
                 IF r = bufS(1) THEN x \o <<RZero>> ELSE x]
  /\ call = [c \in Callers |-> idleCall]
  /\ hist = [c \in Callers |-> [bufs0 |-> bufs, log |-> <<>>]]

SpecPoisson == InitPoisson /\ [][Next]_vars

(* C29: on a pure Poisson plan (alpha = 0), whatever the kinds and     *)
(* sizes, Solve never returns Resonant: a denominator is zero only at   *)
(* the all-zero mode of a plan whose axes are all Periodic or Neumann,  *)
(* where the coefficient is pinned to zero.                             *)
C29_PoissonNeverResonant ==
  \A c \in DOMAIN call :
    (Done(c) /\ plan.alpha = 0) =>
      /\ call[c].err # ErrResonant
      /\ \A idx \in ZeroDenominators :
           /\ AllZeroMode(idx)
           /\ \A a \in 1..plan.dim : plan.bc[a] \in {Periodic, Neumann}

----------------------------------------------------------------------------
(* C30: when SolveWithBC fails on invalid boundary data (a face that   *)
(* is unknown or out of range, a kind mismatch, data on a Periodic      *)
(* axis, a wrong values length), no element of rhs or of dst has been   *)
(* modified, in place or not: all data are validated before the first   *)
(* patch.                                                               *)
C30_InvalidBoundaryLeavesBuffers ==
  \A c \in DOMAIN call :
    (Done(c) /\ call[c].op = "SolveWithBC" /\ call[c].err \in BoundaryErrors
     /\ call[c].rhs # Nil /\ call[c].dst # Nil) =>
      /\ bufs[call[c].rhs] = rhs0(c)
      /\ bufs[call[c].dst] = dst0(c)

====
